---- MODULE Spec2Model ----
(***************************************************************************)
(* A model of codesense-ai: the ReviewResult data model and its scoring   *)
(* (models/__init__.py, core/analyzer.py, api/app.py, cli/app.py) and the *)
(* two response parsers (llm/client.py, github/client.py).                *)
(***************************************************************************)
EXTENDS Integers, Sequences, FiniteSets, TLC

(***************************************************************************)
(* Bounds of the model.                                                   *)
(***************************************************************************)
\* files of one review_multiple batch
MaxFiles == 2
\* issues the model returns for one file of a batch
MaxBatchIssues == 1
\* issues the model returns for a single-file review (REST, CLI single file)
MaxIssues == 5
\* elapsed milliseconds read from the clock
MaxElapsed == 1
\* characters of an enumerated response body
MaxLen == 3

\* Optional[T]: None is the empty tuple, a value v of T is Some(v).
None == <<>>
Some(v) == <<v>>

(***************************************************************************)
(* models/__init__.py                                                     *)
(***************************************************************************)
Severity == {"critical", "high", "medium", "low", "info"}

IssueCategory ==
    {"security", "bug", "performance", "style", "best_practice", "documentation"}

\* An Issue as the scoring code reads it: its severity and its category.
Issue(severity, category) == [severity |-> severity, category |-> category]

FileReview(filename, language, lines_of_code, issues, summary) ==
    [filename |-> filename, language |-> language,
     lines_of_code |-> lines_of_code, issues |-> issues, summary |-> summary]

\* ReviewResult(id=..., files=..., total_issues=...): the other fields
\* default; timestamp is the instant of the construction, counted from the
\* start of the call that constructs.
ReviewResult(id, files, total_issues) ==
    [id |-> id, timestamp |-> 0, files |-> files, total_issues |-> total_issues,
     review_time_ms |-> 0, overall_summary |-> None, overall_score |-> None]

\* The number of issues of severity s in a list of issues.
RECURSIVE CountSeverity(_, _)
CountSeverity(issues, s) ==
    IF issues = <<>> THEN 0
    ELSE (IF Head(issues).severity = s THEN 1 ELSE 0)
         + CountSeverity(Tail(issues), s)

\* FileReview.issue_count
issue_count(file_review) ==
    [s \in Severity |-> CountSeverity(file_review.issues, s)]

\* add_file_review with the total advanced by one per file.
add_file_review_counting_files(result, file_review) ==
    [result EXCEPT !.files = Append(@, file_review),
                   !.total_issues = @ + 1]

\* add_file_review with the new entry ahead of the others.
add_file_review_prepending(result, file_review) ==
    [result EXCEPT !.files = <<file_review>> \o @,
                   !.total_issues = @ + Len(file_review.issues)]

\* ReviewResult.add_file_review
add_file_review(result, file_review) ==
    [result EXCEPT !.files = Append(@, file_review),
                   !.total_issues = @ + Len(file_review.issues)]

RECURSIVE BreakdownOver(_, _)
BreakdownOver(files, s) ==
    IF files = <<>> THEN 0
    ELSE CountSeverity(Head(files).issues, s) + BreakdownOver(Tail(files), s)

\* severity_breakdown that leaves the info issues uncounted.
severity_breakdown_without_info(result) ==
    [s \in Severity |-> IF s = "info" THEN 0 ELSE BreakdownOver(result.files, s)]

\* ReviewResult.severity_breakdown
severity_breakdown(result) ==
    [s \in Severity |-> BreakdownOver(result.files, s)]

(***************************************************************************)
(* core/analyzer.py: summary and score of a ReviewResult                  *)
(***************************************************************************)
Max(a, b) == IF a >= b THEN a ELSE b

\* The "<count> <severity>" parts of the summary, in the order of the code.
SummaryParts(breakdown) ==
    (IF breakdown["critical"] > 0 THEN <<(<<breakdown["critical"], "critical">>)>> ELSE <<>>)
    \o (IF breakdown["high"] > 0 THEN <<(<<breakdown["high"], "high">>)>> ELSE <<>>)
    \o (IF breakdown["medium"] > 0 THEN <<(<<breakdown["medium"], "medium">>)>> ELSE <<>>)
    \o (IF breakdown["low"] > 0 THEN <<(<<breakdown["low"], "low">>)>> ELSE <<>>)

\* CodeAnalyzer._generate_overall_summary: the text, as the values it is built of.
_generate_overall_summary(result) ==
    LET breakdown == severity_breakdown(result)
    IN  IF result.total_issues = 0
        THEN [total |-> 0, parts |-> <<>>, attention |-> FALSE]
        ELSE [total |-> result.total_issues,
              parts |-> SummaryParts(breakdown),
              attention |-> breakdown["critical"] > 0]

\* The penalty with 10 for a high issue.
AggregatePenalty_high_10(breakdown) ==
    breakdown["critical"] * 25 + breakdown["high"] * 10
    + breakdown["medium"] * 8 + breakdown["low"] * 3 + breakdown["info"] * 1

\* The weighted penalty of _calculate_score.
AggregatePenalty(breakdown) ==
    breakdown["critical"] * 25 + breakdown["high"] * 15
    + breakdown["medium"] * 8 + breakdown["low"] * 3 + breakdown["info"] * 1

\* _calculate_score without the floor of 0.
_calculate_score_unclamped(result) ==
    IF result.total_issues = 0 THEN 100
    ELSE 100 - AggregatePenalty(severity_breakdown(result))

\* _calculate_score over the issue_count of the last file alone.
_calculate_score_last_file(result) ==
    IF result.total_issues = 0 THEN 100
    ELSE Max(0, 100 - AggregatePenalty(issue_count(result.files[Len(result.files)])))

\* CodeAnalyzer._calculate_score
_calculate_score(result) ==
    IF result.total_issues = 0 THEN 100
    ELSE Max(0, 100 - AggregatePenalty(severity_breakdown(result)))

(***************************************************************************)
(* api/app.py: the per-file score of the REST review endpoint             *)
(***************************************************************************)
\* The conditional expression with 5 for a medium issue.
IssuePenalty_medium_5(issue) ==
    IF issue.severity = "critical" THEN 25
    ELSE IF issue.severity = "high" THEN 15
    ELSE IF issue.severity = "medium" THEN 5
    ELSE IF issue.severity = "low" THEN 3 ELSE 1

\* The conditional expression summed over the issues.
IssuePenalty(issue) ==
    IF issue.severity = "critical" THEN 25
    ELSE IF issue.severity = "high" THEN 15
    ELSE IF issue.severity = "medium" THEN 8
    ELSE IF issue.severity = "low" THEN 3 ELSE 1

RECURSIVE SumPenalty(_)
SumPenalty(issues) ==
    IF issues = <<>> THEN 0
    ELSE IssuePenalty(Head(issues)) + SumPenalty(Tail(issues))

\* quality_score of review_code (REST)
quality_score(issues) ==
    IF issues = <<>> THEN 100 ELSE Max(0, 100 - SumPenalty(issues))

(***************************************************************************)
(* Text.  A Python str is the sequence of its characters.  The JSON       *)
(* grammar below is json.loads on the texts of the model: outside a       *)
(* string they hold the structural characters, whitespace, numbers        *)
(* written with the digit 1 and the literal null (no true, false, NaN or  *)
(* Infinity, no sign, fraction or exponent); a string holds no backslash; *)
(* arrays and objects nest less deeply than the recursion limit.          *)
(***************************************************************************)
\* The backtick (U+0060), which a TLA+ string cannot hold.
Backtick == "BACKTICK"

Chars == {Backtick, "{", "}", "[", "]", ",", ":", "\"", " ", "\n", "1", "a", "j", "s", "o", "n"}

\* The characters of Chars that the whitespace class of re, str.strip and json skip.
Whitespace == {" ", "\n"}

\* The first position from i on that holds no whitespace (Len(s) + 1 if none).
SkipWs(s, i) ==
    CHOOSE j \in i..(Len(s) + 1) :
        /\ \A k \in i..(j - 1) : s[k] \in Whitespace
        /\ j = Len(s) + 1 \/ s[j] \notin Whitespace

\* str.strip()
Strip(s) ==
    LET first == SkipWs(s, 1)
    IN  IF first > Len(s) THEN <<>>
        ELSE LET last == CHOOSE j \in first..Len(s) :
                             /\ s[j] \notin Whitespace
                             /\ \A k \in (j + 1)..Len(s) : s[k] \in Whitespace
             IN  SubSeq(s, first, last)

\* content[:n]
Prefix(s, n) == SubSeq(s, 1, IF Len(s) < n THEN Len(s) ELSE n)

(***************************************************************************)
(* json.loads (json/decoder.py of the standard library), on texts over    *)
(* Chars.  A value is a record of one field that names its type: num, str,*)
(* arr (a sequence of values) or obj (a function from keys to values).    *)
(* A failed parse is the JSONDecodeError: its msg and its pos.            *)
(***************************************************************************)
JSONDecodeError(msg, pos) == [msg |-> msg, pos |-> pos]

\* sys.int_info.default_max_str_digits: the longest decimal text int() converts.
int_max_str_digits == 4300

\* The ValueError int() raises for a longer text; JSONDecodeError is a
\* subclass of ValueError, and this is not one.
ValueError(msg, digits) == [msg |-> msg, digits |-> digits]

IsJSONDecodeError(r) == "msg" \in DOMAIN r /\ "pos" \in DOMAIN r

\* None, the value of the literal null.
JNull == [null |-> TRUE]

Parsed(val, end) == [val |-> val, end |-> end]

IsError(r) == "msg" \in DOMAIN r

CharAt(s, i) == IF i \in 1..Len(s) THEN s[i] ELSE ""

\* dict[key] = value
DictSet(d, key, value) ==
    [k \in (DOMAIN d) \cup {key} |-> IF k = key THEN value ELSE d[k]]

\* The int written as k digits 1.
RECURSIVE Ones(_)
Ones(k) == IF k = 0 THEN 0 ELSE 10 * Ones(k - 1) + 1

\* scanstring(s, i): the string whose opening quote is at i - 1.
scanstring(s, i) ==
    LET stops == {j \in i..Len(s) : s[j] \in {"\"", "\n"}}
    IN  IF stops = {}
        THEN JSONDecodeError("Unterminated string starting at", i - 2)
        ELSE LET j == CHOOSE x \in stops : \A y \in stops : x <= y
             IN  IF s[j] = "\""
                 THEN Parsed([str |-> SubSeq(s, i, j - 1)], j + 1)
                 ELSE JSONDecodeError("Invalid control character at", j - 1)

RECURSIVE scan_once(_, _), JSONObjectMembers(_, _, _), JSONArrayElements(_, _, _)

\* JSONObject(s, i): the object whose brace is at i - 1.
JSONObject(s, i) ==
    LET j == SkipWs(s, i)
    IN  IF CharAt(s, j) = "}" THEN Parsed([obj |-> <<>>], j + 1)
        ELSE IF CharAt(s, j) # "\""
        THEN JSONDecodeError("Expecting property name enclosed in double quotes", j - 1)
        ELSE JSONObjectMembers(s, j + 1, <<>>)

\* The members from the key whose opening quote is at i - 1 on.
JSONObjectMembers(s, i, pairs) ==
    LET key == scanstring(s, i)
    IN  IF IsError(key) THEN key
        ELSE
        LET colon == SkipWs(s, key.end)
        IN  IF CharAt(s, colon) # ":"
            THEN JSONDecodeError("Expecting ':' delimiter", colon - 1)
            ELSE
            LET value == scan_once(s, SkipWs(s, colon + 1))
            IN  IF IsError(value) THEN value
                ELSE
                LET after == SkipWs(s, value.end)
                    dict == DictSet(pairs, key.val.str, value.val)
                IN  IF CharAt(s, after) = "}" THEN Parsed([obj |-> dict], after + 1)
                    ELSE IF CharAt(s, after) # ","
                    THEN JSONDecodeError("Expecting ',' delimiter", after - 1)
                    ELSE
                    LET quote == SkipWs(s, after + 1)
                    IN  IF CharAt(s, quote) # "\""
                        THEN JSONDecodeError(
                                 "Expecting property name enclosed in double quotes",
                                 quote - 1)
                        ELSE JSONObjectMembers(s, quote + 1, dict)

\* JSONArray(s, i): the array whose bracket is at i - 1.
JSONArray(s, i) ==
    LET j == SkipWs(s, i)
    IN  IF CharAt(s, j) = "]" THEN Parsed([arr |-> <<>>], j + 1)
        ELSE JSONArrayElements(s, j, <<>>)

\* The elements from the value at i on.
JSONArrayElements(s, i, values) ==
    LET value == scan_once(s, i)
    IN  IF IsError(value) THEN value
        ELSE
        LET after == SkipWs(s, value.end)
        IN  IF CharAt(s, after) = "]"
            THEN Parsed([arr |-> Append(values, value.val)], after + 1)
            ELSE IF CharAt(s, after) # ","
            THEN JSONDecodeError("Expecting ',' delimiter", after - 1)
            ELSE JSONArrayElements(s, SkipWs(s, after + 1), Append(values, value.val))

\* scan_once(s, i): the value that starts at i.
scan_once(s, i) ==
    IF CharAt(s, i) = "\"" THEN scanstring(s, i + 1)
    ELSE IF CharAt(s, i) = "{" THEN JSONObject(s, i + 1)
    ELSE IF CharAt(s, i) = "[" THEN JSONArray(s, i + 1)
    ELSE IF i + 3 <= Len(s) /\ SubSeq(s, i, i + 3) = <<"n", "u", "l", "l">>
    THEN Parsed(JNull, i + 4)
    ELSE IF CharAt(s, i) = "1"
    THEN LET end == CHOOSE j \in (i + 1)..(Len(s) + 1) :
                        /\ CharAt(s, j) # "1"
                        /\ \A k \in i..(j - 1) : s[k] = "1"
         IN  IF end - i > int_max_str_digits
             THEN ValueError("Exceeds the limit for integer string conversion",
                             end - i)
             ELSE Parsed([num |-> Ones(end - i)], end)
    ELSE JSONDecodeError("Expecting value", i - 1)

\* json.loads(s): the value, or the JSONDecodeError it raises.
json_loads(s) ==
    LET value == scan_once(s, SkipWs(s, 1))
    IN  IF IsError(value) THEN value
        ELSE LET end == SkipWs(s, value.end)
             IN  IF end # Len(s) + 1 THEN JSONDecodeError("Extra data", end - 1)
                 ELSE value.val

\* str(e): the text that names the msg and the pos of a JSONDecodeError, or
\* the msg and the digits of a ValueError.
ErrorText(e) == [text_of |-> e]

\* The exception e leaves the method: nothing is returned.
Raise(e) == [raises |-> e]

(***************************************************************************)
(* The regular expressions of _parse_response.                            *)
(***************************************************************************)
\* n backticks at i
IsFence(s, i, n) ==
    /\ i + n - 1 <= Len(s)
    /\ \A k \in 0..(n - 1) : s[i + k] = Backtick

\* "json" at p
IsTag(s, p) ==
    /\ p + 3 <= Len(s)
    /\ s[p] = "j" /\ s[p + 1] = "s" /\ s[p + 2] = "o" /\ s[p + 3] = "n"

\* The ends e of a group that starts at start: after the group, the pattern
\* takes some of the whitespace that follows and the closing marker is next.
GroupEnds(s, start, n) ==
    {e \in start..(Len(s) + 1) : \E t \in e..SkipWs(s, e) : IsFence(s, t, n)}

\* The starts of a group after (?:json)? ended at p: the pattern takes some
\* of the whitespace from p on, and the rest of the pattern matches.
GroupStarts(s, p, n) ==
    {start \in p..SkipWs(s, p) : GroupEnds(s, start, n) # {}}

\* The ends of (?:json)? for a marker at i, the preferred one first.
TagEnds(s, i, n) ==
    IF IsTag(s, i + n) THEN <<i + n + 4, i + n>> ELSE <<i + n>>

\* The match of the fence pattern (n backticks, the optional tag, whitespace,
\* the lazy group, whitespace, n backticks) that starts at i, as the
\* backtracking matcher finds it: the tag if it can, then the longest
\* whitespace, then the shortest group.
MatchAt(s, i, n) ==
    LET ends == TagEnds(s, i, n)
        usable == {x \in 1..Len(ends) : GroupStarts(s, ends[x], n) # {}}
    IN  IF ~IsFence(s, i, n) \/ usable = {} THEN [found |-> FALSE]
        ELSE LET x == CHOOSE a \in usable : \A b \in usable : a <= b
                 starts == GroupStarts(s, ends[x], n)
                 start == CHOOSE a \in starts : \A b \in starts : a >= b
                 stops == GroupEnds(s, start, n)
                 stop == CHOOSE a \in stops : \A b \in stops : a <= b
             IN  [found |-> TRUE, group |-> SubSeq(s, start, stop - 1)]

\* re.search of the pattern with markers of n backticks: the leftmost match.
FenceSearch(s, n) ==
    LET at == {i \in 1..Len(s) : MatchAt(s, i, n).found}
    IN  IF at = {} THEN [found |-> FALSE]
        ELSE MatchAt(s, CHOOSE i \in at : \A k \in at : i <= k, n)

\* Position k of s is part of a match of the pattern comma, whitespace,
\* closer, and is not the closer: it is a comma or whitespace, the run of
\* whitespace it stands in starts after a comma, and the closer follows that
\* run.  Two matches never overlap, so re.sub replaces every one of them.
InTrailingComma(s, k, closer) ==
    /\ s[k] \in Whitespace \cup {","}
    /\ CharAt(s, SkipWs(s, k + 1)) = closer
    /\ \E i \in 1..k : /\ s[i] = ","
                       /\ \A m \in (i + 1)..k : s[m] \in Whitespace

\* re.sub of a comma, whitespace and closer by closer.
SubTrailingComma(s, closer) ==
    LET kept == SelectSeq([k \in 1..Len(s) |-> k],
                          LAMBDA k : ~InTrailingComma(s, k, closer))
    IN  [n \in 1..Len(kept) |-> s[kept[n]]]

\* The two repairs, in the order of the code.
RepairTrailingCommas(s) ==
    SubTrailingComma(SubTrailingComma(s, "}"), "]")

(***************************************************************************)
(* The string constants of the error records.                             *)
(***************************************************************************)
Key_summary == <<"s", "u", "m", "m", "a", "r", "y">>
Key_issues == <<"i", "s", "s", "u", "e", "s">>
Key_error == <<"e", "r", "r", "o", "r">>
Key_raw_response == <<"r", "a", "w", "_", "r", "e", "s", "p", "o", "n", "s", "e">>
Key_parse_error == <<"p", "a", "r", "s", "e", "_", "e", "r", "r", "o", "r">>
Text_AnalysisCompleted == <<"A", "n", "a", "l", "y", "s", "i", "s", " ", "c", "o", "m", "p", "l", "e", "t", "e", "d">>
Text_FailedToParse == <<"F", "a", "i", "l", "e", "d", " ", "t", "o", " ", "p", "a", "r", "s", "e", " ", "L", "L", "M", " ", "r", "e", "s", "p", "o", "n", "s", "e">>

(***************************************************************************)
(* llm/client.py: GroqClient._parse_response.  The run of the method on   *)
(* content: the candidate (content after the strip), the text of the last *)
(* json.loads, the number of json.loads calls and the value returned (or  *)
(* the exception raised).  Its except clause catches every Exception.     *)
(***************************************************************************)
ParseRun(candidate, loaded, loads, value) ==
    [candidate |-> candidate, loaded |-> loaded, loads |-> loads, value |-> value]

_parse_response_llm(content) ==
    LET json_match == FenceSearch(content, 1)
        candidate == Strip(IF json_match.found THEN json_match.group ELSE content)
        repaired == RepairTrailingCommas(candidate)
        data == json_loads(repaired)
    IN  ParseRun(candidate, repaired, 1,
            IF ~IsError(data) THEN data
            ELSE [obj |-> (Key_summary :> [str |-> Text_AnalysisCompleted])
                          @@ (Key_issues :> [arr |-> <<>>])
                          @@ (Key_error :> ErrorText(data))])

(***************************************************************************)
(* github/client.py: GroqClient._parse_response.  Its except clauses      *)
(* catch json.JSONDecodeError alone.                                      *)
(***************************************************************************)
_parse_response_github(content) ==
    LET json_match == FenceSearch(content, 3)
        candidate == Strip(IF json_match.found THEN json_match.group ELSE content)
        first == json_loads(candidate)
        repaired == RepairTrailingCommas(candidate)
        second == json_loads(repaired)
    IN  IF ~IsError(first) THEN ParseRun(candidate, candidate, 1, first)
        ELSE IF ~IsJSONDecodeError(first)
        THEN ParseRun(candidate, candidate, 1, Raise(first))
        ELSE IF ~IsError(second) THEN ParseRun(candidate, repaired, 2, second)
        ELSE IF ~IsJSONDecodeError(second)
        THEN ParseRun(candidate, repaired, 2, Raise(second))
        ELSE ParseRun(candidate, repaired, 2,
                 [obj |-> (Key_error :> [str |-> Text_FailedToParse])
                          @@ (Key_raw_response :> [str |-> Prefix(repaired, 500)])
                          @@ (Key_parse_error :> ErrorText(first))])

\* The _parse_response of the client in use.
_parse_response(client, content) ==
    IF client = "llm" THEN _parse_response_llm(content)
    ELSE _parse_response_github(content)

(***************************************************************************)
(* The values json.loads returns, as review_code reads them.              *)
(***************************************************************************)
IsStr(v) == "str" \in DOMAIN v
IsNum(v) == "num" \in DOMAIN v
IsNull(v) == "null" \in DOMAIN v
IsList(v) == "arr" \in DOMAIN v
IsDict(v) == "obj" \in DOMAIN v

\* needle in text, for two str
IsSubstring(needle, text) ==
    \E i \in 1..(Len(text) - Len(needle) + 1) :
        SubSeq(text, i, i + Len(needle) - 1) = needle

\* Whether "key in container" is defined: on an int or None it raises
\* TypeError.
IsContainer(v) == IsDict(v) \/ IsList(v) \/ IsStr(v)

\* key in container: a key of a dict, an element of a list, a substring of a
\* str.
Contains(container, key) ==
    IF IsDict(container) THEN key \in DOMAIN container.obj
    ELSE IF IsList(container)
    THEN \E i \in 1..Len(container.arr) : container.arr[i] = [str |-> key]
    ELSE IsSubstring(key, container.str)

\* d.get(key, default) of a dict; the default is an Optional.
Get(d, key, default) ==
    IF key \in DOMAIN d.obj THEN Some(d.obj[key]) ELSE default

\* str.lower() on ASCII letters
Uppercase == <<"A", "B", "C", "D", "E", "F", "G", "H", "I", "J", "K", "L", "M",
               "N", "O", "P", "Q", "R", "S", "T", "U", "V", "W", "X", "Y", "Z">>
Lowercase == <<"a", "b", "c", "d", "e", "f", "g", "h", "i", "j", "k", "l", "m",
               "n", "o", "p", "q", "r", "s", "t", "u", "v", "w", "x", "y", "z">>

lower(text) ==
    [k \in 1..Len(text) |->
        IF \E n \in 1..Len(Uppercase) : Uppercase[n] = text[k]
        THEN Lowercase[CHOOSE n \in 1..Len(Uppercase) : Uppercase[n] = text[k]]
        ELSE text[k]]

(***************************************************************************)
(* models/__init__.py: the values of the two enums, and the validation of *)
(* the fields of an Issue and of a FileReview (pydantic 2, lax mode).     *)
(***************************************************************************)
SeverityValue ==
    [critical |-> <<"c", "r", "i", "t", "i", "c", "a", "l">>,
     high |-> <<"h", "i", "g", "h">>,
     medium |-> <<"m", "e", "d", "i", "u", "m">>,
     low |-> <<"l", "o", "w">>,
     info |-> <<"i", "n", "f", "o">>]

IssueCategoryValue ==
    [security |-> <<"s", "e", "c", "u", "r", "i", "t", "y">>,
     bug |-> <<"b", "u", "g">>,
     performance |-> <<"p", "e", "r", "f", "o", "r", "m", "a", "n", "c", "e">>,
     style |-> <<"s", "t", "y", "l", "e">>,
     best_practice |-> <<"b", "e", "s", "t", "_", "p", "r", "a", "c", "t", "i", "c", "e">>,
     documentation |-> <<"d", "o", "c", "u", "m", "e", "n", "t", "a", "t", "i", "o", "n">>]

\* Whether Enum(text) returns a member; otherwise it raises ValueError.
HasValue(values, text) == \E m \in DOMAIN values : values[m] = text

\* Enum(text): the member whose value is text.
EnumOf(values, text) == CHOOSE m \in DOMAIN values : values[m] = text

IsRaise(r) == "raises" \in DOMAIN r

\* A str that an int field converts (lax mode): without the whitespace
\* around it, it is one to int_max_str_digits decimal digits.
IsDigits(text) ==
    LET digits == Strip(text)
    IN  /\ digits # <<>>
        /\ Len(digits) <= int_max_str_digits
        /\ \A k \in 1..Len(digits) : digits[k] = "1"

\* Whether the Optional argument passes the validation of a field of type t:
\* a str field takes a str; an Optional field takes None too; an int field
\* takes an int and a str of digits, with or without whitespace around them.
Validates(t, argument) ==
    IF argument = None \/ IsNull(argument[1]) THEN t # "str"
    ELSE IF t = "Optional[int]"
    THEN IsNum(argument[1]) \/ (IsStr(argument[1]) /\ IsDigits(argument[1].str))
    ELSE IsStr(argument[1])

(***************************************************************************)
(* core/analyzer.py: _parse_issue and review_code, on the value that      *)
(* analyze_sync returned.                                                 *)
(***************************************************************************)
Key_severity == <<"s", "e", "v", "e", "r", "i", "t", "y">>
Key_category == <<"c", "a", "t", "e", "g", "o", "r", "y">>
Key_title == <<"t", "i", "t", "l", "e">>
Key_description == <<"d", "e", "s", "c", "r", "i", "p", "t", "i", "o", "n">>
Key_line_start == <<"l", "i", "n", "e", "_", "s", "t", "a", "r", "t">>
Key_line_end == <<"l", "i", "n", "e", "_", "e", "n", "d">>
Key_code_snippet == <<"c", "o", "d", "e", "_", "s", "n", "i", "p", "p", "e", "t">>
Key_suggestion == <<"s", "u", "g", "g", "e", "s", "t", "i", "o", "n">>
Key_suggested_code == <<"s", "u", "g", "g", "e", "s", "t", "e", "d", "_", "c", "o", "d", "e">>
Text_UnknownIssue == <<"U", "n", "k", "n", "o", "w", "n", " ", "I", "s", "s", "u", "e">>
Text_NoDescription == <<"N", "o", " ", "d", "e", "s", "c", "r", "i", "p", "t", "i", "o", "n", " ", "p", "r", "o", "v", "i", "d", "e", "d">>

\* The arguments of Issue(...) besides severity and category: the key read,
\* the type of the field and the default of the get.
IssueArguments ==
    << <<Key_title, "str", Some([str |-> Text_UnknownIssue])>>,
       <<Key_description, "str", Some([str |-> Text_NoDescription])>>,
       <<Key_line_start, "Optional[int]", None>>,
       <<Key_line_end, "Optional[int]", None>>,
       <<Key_code_snippet, "Optional[str]", None>>,
       <<Key_suggestion, "Optional[str]", None>>,
       <<Key_suggested_code, "Optional[str]", None>> >>

\* _parse_issue with HIGH for an unknown severity string.
SeverityOf_default_high(severity_str) ==
    IF HasValue(SeverityValue, lower(severity_str))
    THEN EnumOf(SeverityValue, lower(severity_str)) ELSE "high"

\* Lines 44-48: the severity of the lower-cased string, MEDIUM if unknown.
SeverityOf(severity_str) ==
    IF HasValue(SeverityValue, lower(severity_str))
    THEN EnumOf(SeverityValue, lower(severity_str)) ELSE "medium"

\* Lines 51-55: the category of the lower-cased string, BEST_PRACTICE if unknown.
CategoryOf(category_str) ==
    IF HasValue(IssueCategoryValue, lower(category_str))
    THEN EnumOf(IssueCategoryValue, lower(category_str)) ELSE "best_practice"

\* CodeAnalyzer._parse_issue: the Issue, or the exception it raises.
_parse_issue(issue_data) ==
    IF ~IsDict(issue_data) THEN Raise("AttributeError")
    ELSE
    LET severity_arg == Get(issue_data, Key_severity, Some([str |-> SeverityValue.medium]))[1]
        category_arg == Get(issue_data, Key_category,
                            Some([str |-> IssueCategoryValue.best_practice]))[1]
    IN  IF ~IsStr(severity_arg) \/ ~IsStr(category_arg) THEN Raise("AttributeError")
        ELSE IF \E n \in 1..Len(IssueArguments) :
                    ~Validates(IssueArguments[n][2],
                               Get(issue_data, IssueArguments[n][1], IssueArguments[n][3]))
        THEN Raise("ValidationError")
        ELSE Issue(SeverityOf(severity_arg.str), CategoryOf(category_arg.str))

\* The loop over the issues that ends at the first entry that raises.
RECURSIVE ParseIssues_stopping(_)
ParseIssues_stopping(items) ==
    IF items = <<>> THEN <<>>
    ELSE LET issue == _parse_issue(Head(items))
         IN  IF IsRaise(issue) THEN <<>>
             ELSE <<issue>> \o ParseIssues_stopping(Tail(items))

\* Lines 122-129: the loop over the issues; an entry that raises is skipped.
RECURSIVE ParseIssues(_)
ParseIssues(items) ==
    IF items = <<>> THEN <<>>
    ELSE LET issue == _parse_issue(Head(items))
         IN  IF IsRaise(issue) THEN ParseIssues(Tail(items))
             ELSE <<issue>> \o ParseIssues(Tail(items))

\* The elements a for statement draws from a list, a str (its characters)
\* or a dict (its keys).
RECURSIVE KeysOf(_)
KeysOf(d) ==
    IF DOMAIN d = {} THEN <<>>
    ELSE LET k == CHOOSE x \in DOMAIN d : TRUE
         IN  <<[str |-> k]>> \o KeysOf([x \in (DOMAIN d) \ {k} |-> d[x]])

Iterate(v) ==
    IF IsList(v) THEN v.arr
    ELSE IF IsStr(v) THEN [k \in 1..Len(v.str) |-> [str |-> <<v.str[k]>>]]
    ELSE KeysOf(v.obj)

Text_AnalysisError == <<"A", "n", "a", "l", "y", "s", "i", "s", " ", "e", "n", "c", "o", "u", "n", "t", "e", "r", "e", "d", " ", "a", "n", " ", "e", "r", "r", "o", "r">>

\* The issue of lines 110-116 with severity LOW.
AnalysisErrorIssue_low == Issue("low", "documentation")

\* Lines 110-116: the one issue of a result that carries an error.
AnalysisErrorIssue == Issue("info", "documentation")

(***************************************************************************)
(* core/detector.py.  A filename and a code are texts; a language is a    *)
(* tag, which the code only tests for emptiness and passes on.            *)
(***************************************************************************)
\* EXTENSION_MAP, in the order of the dict's items.
EXTENSION_MAP ==
    << << <<".", "p", "y">>, "python" >>,
       << <<".", "j", "s">>, "javascript" >>,
       << <<".", "t", "s">>, "typescript" >>,
       << <<".", "j", "a", "v", "a">>, "java" >>,
       << <<".", "g", "o">>, "go" >>,
       << <<".", "r", "s">>, "rust" >>,
       << <<".", "r", "b">>, "ruby" >>,
       << <<".", "p", "h", "p">>, "php" >>,
       << <<".", "c">>, "c" >>,
       << <<".", "c", "p", "p">>, "cpp" >>,
       << <<".", "c", "s">>, "csharp" >> >>

\* text.endswith(suffix)
endswith(text, suffix) ==
    /\ Len(suffix) <= Len(text)
    /\ SubSeq(text, Len(text) - Len(suffix) + 1, Len(text)) = suffix

\* The truth value of an Optional[str] whose value is a text.
TruthyText(argument) == argument # None /\ Len(argument[1]) > 0

\* The truth value of an Optional[str] whose value is a language tag.
TruthyTag(argument) == argument # None /\ argument[1] # ""

Text_def == <<"d", "e", "f", " ">>
Text_import == <<"i", "m", "p", "o", "r", "t", " ">>
Text_const == <<"c", "o", "n", "s", "t", " ">>
Text_function == <<"f", "u", "n", "c", "t", "i", "o", "n", " ">>

\* detect_language with the tests on the code ahead of the one on the
\* filename.
detect_language_code_first(code, filename) ==
    LET hits == IF TruthyText(filename)
                THEN {k \in 1..Len(EXTENSION_MAP) : endswith(filename[1], EXTENSION_MAP[k][1])}
                ELSE {}
    IN  IF TruthyText(code)
           /\ (IsSubstring(Text_def, code[1]) \/ IsSubstring(Text_import, code[1]))
        THEN "python"
        ELSE IF TruthyText(code)
           /\ (IsSubstring(Text_const, code[1]) \/ IsSubstring(Text_function, code[1]))
        THEN "javascript"
        ELSE IF hits # {}
        THEN EXTENSION_MAP[CHOOSE k \in hits : \A j \in hits : k <= j][2]
        ELSE "text"

\* detect_language(code, filename), both Optional: the first extension of
\* the map the filename ends with, then the markers in the code.
detect_language(code, filename) ==
    LET hits == IF TruthyText(filename)
                THEN {k \in 1..Len(EXTENSION_MAP) : endswith(filename[1], EXTENSION_MAP[k][1])}
                ELSE {}
    IN  IF hits # {}
        THEN EXTENSION_MAP[CHOOSE k \in hits : \A j \in hits : k <= j][2]
        ELSE IF TruthyText(code)
           /\ (IsSubstring(Text_def, code[1]) \/ IsSubstring(Text_import, code[1]))
        THEN "python"
        ELSE IF TruthyText(code)
           /\ (IsSubstring(Text_const, code[1]) \/ IsSubstring(Text_function, code[1]))
        THEN "javascript"
        ELSE "text"

(***************************************************************************)
(* llm/prompts.py.                                                        *)
(***************************************************************************)
\* get_review_prompt: the system prompt and CODE_REVIEW_PROMPT with its two
\* fields filled in; filename and review_type are not read.
get_review_prompt(code, language, filename, review_type) ==
    [system |-> "SYSTEM_PROMPT",
     user |-> [template |-> "CODE_REVIEW_PROMPT", language |-> language, code |-> code]]

(***************************************************************************)
(* CodeAnalyzer.review_code.                                              *)
(***************************************************************************)
Text_code == <<"c", "o", "d", "e">>

\* len(code.splitlines()) for a code whose only line boundary is "\n".
splitlines_len(code) ==
    Len(SelectSeq(code, LAMBDA ch : ch = "\n"))
        + (IF Len(code) > 0 /\ code[Len(code)] # "\n" THEN 1 ELSE 0)

\* Lines 89-90 with the detector asked whatever the language argument is.
LanguageOf_always_detected(code, filename, language) ==
    detect_language(Some(code), filename)

\* Lines 89-90: the language argument, or the detector's answer when there
\* is none.
LanguageOf(code, filename, language) ==
    IF TruthyTag(language) THEN language[1]
    ELSE detect_language(Some(code), filename)

\* filename or "code"
FilenameOf(filename) == IF TruthyText(filename) THEN filename[1] ELSE Text_code

\* Lines 96-101: the keyword arguments of analyze_sync.
AnalyzeArguments(code, filename, language, review_type) ==
    [code |-> code,
     language |-> LanguageOf(code, filename, language),
     filename |-> FilenameOf(filename),
     review_type |-> review_type]

\* review_code that keeps the first issue only when the review is quick.
review_code_quick_first_issue(code, filename, language, review_type, analysis) ==
    IF IsRaise(analysis) THEN analysis
    ELSE IF ~IsContainer(analysis) THEN Raise("TypeError")
    ELSE IF Contains(analysis, Key_error)
    THEN IF ~IsDict(analysis) THEN Raise("AttributeError")
         ELSE FileReview(FilenameOf(filename), LanguageOf(code, filename, language),
                         splitlines_len(code), <<AnalysisErrorIssue>>,
                         Some(Text_AnalysisError))
    ELSE IF ~IsDict(analysis) THEN Raise("AttributeError")
    ELSE
    LET issues_arg == Get(analysis, Key_issues, Some([arr |-> <<>>]))[1]
        summary == Get(analysis, Key_summary, None)
    IN  IF ~IsContainer(issues_arg) THEN Raise("TypeError")
        ELSE IF ~Validates("Optional[str]", summary) THEN Raise("ValidationError")
        ELSE FileReview(FilenameOf(filename), LanguageOf(code, filename, language),
                        splitlines_len(code),
                        IF review_type = "quick" /\ Len(ParseIssues(Iterate(issues_arg))) > 1
                        THEN <<ParseIssues(Iterate(issues_arg))[1]>>
                        ELSE ParseIssues(Iterate(issues_arg)),
                        IF summary = None \/ IsNull(summary[1]) THEN None
                        ELSE Some(summary[1].str))

\* CodeAnalyzer.review_code for the value (or the exception) of analyze_sync:
\* the FileReview, or the exception it raises.
review_code(code, filename, language, review_type, analysis) ==
    IF IsRaise(analysis) THEN analysis
    ELSE IF ~IsContainer(analysis) THEN Raise("TypeError")
    ELSE IF Contains(analysis, Key_error)
    THEN IF ~IsDict(analysis) THEN Raise("AttributeError")
         ELSE FileReview(FilenameOf(filename), LanguageOf(code, filename, language),
                         splitlines_len(code), <<AnalysisErrorIssue>>,
                         Some(Text_AnalysisError))
    ELSE IF ~IsDict(analysis) THEN Raise("AttributeError")
    ELSE
    LET issues_arg == Get(analysis, Key_issues, Some([arr |-> <<>>]))[1]
        summary == Get(analysis, Key_summary, None)
    IN  IF ~IsContainer(issues_arg) THEN Raise("TypeError")
        ELSE IF ~Validates("Optional[str]", summary) THEN Raise("ValidationError")
        ELSE FileReview(FilenameOf(filename), LanguageOf(code, filename, language),
                        splitlines_len(code), ParseIssues(Iterate(issues_arg)),
                        IF summary = None \/ IsNull(summary[1]) THEN None
                        ELSE Some(summary[1].str))

(***************************************************************************)
(* The inputs: what a review of one file returns.                         *)
(***************************************************************************)
SeqsUpTo(S, n) == UNION {[1..k -> S] : k \in 0..n}

\* The issues the model reports; the scoring code never reads the category,
\* which is the parser's default here.
ReportedIssues == {Issue(s, "best_practice") : s \in Severity}

\* The synthetic issue of a failed file (review_multiple) or of an
\* unparsable response (review_code).
ErrorIssue == Issue("info", "documentation")

\* The FileReview review_file returns for path number i.
ReviewedFile(i, issues) == FileReview(i, "python", 1, issues, Some("ok"))

\* The FileReview review_multiple appends for a path whose review raised.
FailedFile(i) == FileReview(i, "unknown", 0, <<ErrorIssue>>, None)

(***************************************************************************)
(* State.                                                                 *)
(***************************************************************************)
VARIABLES
    pc,          \* "idle", "multi" (inside review_multiple's loop), "done", "api",
                 \* "parsed" (analyze_sync has returned); inside review_code:
                 \* "requested" (the remote call has returned), "analyzed"
                 \* (analyze_sync has returned), "reviewed" (review_code is over)
    result,      \* the ReviewResult under construction, or None
    files_left,  \* review_multiple: paths not yet processed
    n_files,     \* review_multiple: length of the list of paths
    response,    \* the REST endpoint's ReviewResponse, or None
    client,      \* the module of the GroqClient in use: "llm" or "github"
    body,        \* the JSON document the remote model wrote
    wrapper,     \* how the remote model wrapped it
    raw,         \* response.choices[0].message.content
    run,         \* the run of _parse_response on raw, or None
    requests,    \* chat.completions.create calls of the invocation under way
    review       \* what review_code returned or raised, or None

\* review_code's arguments and what reaches the client.
VARIABLES
    request,     \* the arguments of the review_code invocation under way, or None
    sent,        \* the arguments analyze_sync received and its prompt, or None
    detected     \* what the detector answered when it was asked, or None

\* The REST API process (api/app.py).
VARIABLES
    api_key,     \* settings.groq_api_key, read when the module is imported
    _analyzer,   \* the module's global handle: None or Some(instance)
    constructions, \* CodeAnalyzer instances constructed so far
    handlers,    \* the POST /api/review handlers: where each one is
    credentials  \* the keys that went out with a remote call

\* review_multiple, remote call by remote call.
VARIABLES
    calls,       \* the paths whose remote call has been issued, in order
    outstanding  \* the paths whose remote call has not returned

\* The GitHub webhook (github/webhook.py).
VARIABLES
    secret,      \* GITHUB_WEBHOOK_SECRET, read when the module is imported
    delivery,    \* the request github_webhook is handling, or None
    listed,      \* what get_pr_files returned, or None
    position,    \* the loop of lines 94-103: entries of files[:5] gone through
    analyzed,    \* the files analyze_code has returned a review of
    outbound,    \* the outbound calls made for the delivery, in order
    hook         \* where the handler is, and how it ended

review_vars == <<result, files_left, n_files, response>>
client_vars == <<client, body, wrapper, raw, run, requests, review>>
request_vars == <<request, sent, detected>>
api_vars == <<api_key, _analyzer, constructions, handlers, credentials>>
batch_vars == <<calls, outstanding>>
hook_vars == <<secret, delivery, listed, position, analyzed, outbound, hook>>
vars == <<pc, result, files_left, n_files, response, client, body, wrapper, raw, run,
          requests, review, request_vars, api_vars, batch_vars, hook_vars>>

\* No review_code invocation is under way.
InitRequest ==
    /\ request = None
    /\ sent = None
    /\ detected = None

\* The REST API process is not part of the run: no key, no handle, no handler.
InitApiIdle ==
    /\ api_key = <<>>
    /\ _analyzer = None
    /\ constructions = 0
    /\ handlers = <<>>
    /\ credentials = {}

\* No remote call of a batch has been issued.
InitBatch ==
    /\ calls = <<>>
    /\ outstanding = {}

\* The webhook is not part of the run: no secret, no delivery.
InitHookIdle ==
    /\ secret = <<>>
    /\ delivery = None
    /\ listed = None
    /\ position = 0
    /\ analyzed = 0
    /\ outbound = <<>>
    /\ hook = "idle"

\* The analyzer imports codesense.llm: get_llm_client() is llm/client.py's.
Init ==
    /\ pc = "idle"
    /\ result = None
    /\ files_left = 0
    /\ n_files = 0
    /\ response = None
    /\ client = "llm"
    /\ body = <<>>
    /\ wrapper = "bare"
    /\ raw = <<>>
    /\ run = None
    /\ requests = 0
    /\ review = None
    /\ InitRequest
    /\ InitApiIdle
    /\ InitBatch
    /\ InitHookIdle

\* review_multiple, up to the loop: an empty result.
StartMultiple ==
    /\ pc = "idle"
    /\ \E n \in 0..MaxFiles :
        /\ n_files' = n
        /\ files_left' = n
    /\ result' = ReviewResult("multi", <<>>, 0)
    /\ pc' = "multi"
    /\ UNCHANGED response
    /\ UNCHANGED client_vars
    /\ UNCHANGED <<request_vars, api_vars, batch_vars, hook_vars>>

\* One iteration of the loop whose review_file returns.
ReviewNextFile ==
    /\ pc = "multi"
    /\ files_left > 0
    /\ \E issues \in SeqsUpTo(ReportedIssues, MaxBatchIssues) \cup {<<ErrorIssue>>} :
        result' = add_file_review(result,
                      ReviewedFile(n_files - files_left + 1, issues))
    /\ files_left' = files_left - 1
    /\ UNCHANGED <<pc, n_files, response>>
    /\ UNCHANGED client_vars
    /\ UNCHANGED <<request_vars, api_vars, batch_vars, hook_vars>>

\* The iteration that lets the exception of review_file end the batch.
FailNextFile_aborting ==
    /\ pc = "multi"
    /\ files_left > 0
    /\ pc' = "done"
    /\ UNCHANGED <<result, files_left, n_files, response>>
    /\ UNCHANGED client_vars
    /\ UNCHANGED <<request_vars, api_vars, batch_vars, hook_vars>>

\* One iteration of the loop whose review_file raises.
FailNextFile ==
    /\ pc = "multi"
    /\ files_left > 0
    /\ result' = add_file_review(result, FailedFile(n_files - files_left + 1))
    /\ files_left' = files_left - 1
    /\ UNCHANGED <<pc, n_files, response>>
    /\ UNCHANGED client_vars
    /\ UNCHANGED <<request_vars, api_vars, batch_vars, hook_vars>>

\* The time, the summary and the score assigned before the loop is over.
FinishMultiple_early ==
    /\ pc = "multi"
    /\ \E ms \in 0..MaxElapsed :
        result' = [result EXCEPT !.review_time_ms = ms,
                                 !.overall_summary = Some(_generate_overall_summary(result)),
                                 !.overall_score = Some(_calculate_score(result))]
    /\ pc' = IF files_left = 0 THEN "done" ELSE "multi"
    /\ UNCHANGED <<files_left, n_files, response>>
    /\ UNCHANGED client_vars
    /\ UNCHANGED <<request_vars, api_vars, batch_vars, hook_vars>>

\* After the loop: the time, the summary and the score.
FinishMultiple ==
    /\ pc = "multi"
    /\ files_left = 0
    /\ \E ms \in 0..MaxElapsed :
        result' = [result EXCEPT !.review_time_ms = ms,
                                 !.overall_summary = Some(_generate_overall_summary(result)),
                                 !.overall_score = Some(_calculate_score(result))]
    /\ pc' = "done"
    /\ UNCHANGED <<files_left, n_files, response>>
    /\ UNCHANGED client_vars
    /\ UNCHANGED <<request_vars, api_vars, batch_vars, hook_vars>>

\* cli review of one file: the FileReview wrapped in a ReviewResult.
CliSingleFile ==
    /\ pc = "idle"
    /\ \E issues \in SeqsUpTo(ReportedIssues, MaxIssues) \cup {<<ErrorIssue>>} :
        LET file_review == ReviewedFile(1, issues)
            review_result == ReviewResult("single", <<file_review>>, Len(file_review.issues))
        IN  result' = [review_result EXCEPT
                          !.overall_score = Some(_calculate_score(review_result))]
    /\ pc' = "done"
    /\ UNCHANGED <<files_left, n_files, response>>
    /\ UNCHANGED client_vars
    /\ UNCHANGED <<request_vars, api_vars, batch_vars, hook_vars>>

\* POST /api/review whose review_code returns.
ApiReview ==
    /\ pc = "idle"
    /\ \E issues \in SeqsUpTo(ReportedIssues, MaxIssues) \cup {<<ErrorIssue>>} :
        response' = [issues |-> issues,
                     total_issues |-> Len(issues),
                     quality_score |-> quality_score(issues)]
    /\ pc' = "api"
    /\ UNCHANGED <<result, files_left, n_files>>
    /\ UNCHANGED client_vars
    /\ UNCHANGED <<request_vars, api_vars, batch_vars, hook_vars>>

\* The call or the request is over; the next one starts from nothing.
Return ==
    /\ pc \in {"done", "api", "parsed", "reviewed", "failed", "detected"}
    /\ pc' = "idle"
    /\ result' = None
    /\ response' = None
    /\ files_left' = 0
    /\ n_files' = 0
    /\ body' = <<>>
    /\ wrapper' = "bare"
    /\ raw' = <<>>
    /\ run' = None
    /\ requests' = 0
    /\ review' = None
    /\ request' = None
    /\ sent' = None
    /\ detected' = None
    /\ calls' = <<>>
    /\ outstanding' = {}
    /\ UNCHANGED <<client, api_vars, hook_vars>>

Next ==
    \/ StartMultiple
    \/ ReviewNextFile
    \/ FailNextFile
    \/ FinishMultiple
    \/ CliSingleFile
    \/ ApiReview
    \/ Return

Spec == Init /\ [][Next]_vars

(***************************************************************************)
(* review_multiple, remote call by remote call: the loop of lines 197-215 *)
(* with the chat-completion request of each path as a step of its own.    *)
(***************************************************************************)
\* review_multiple up to the loop; the construction of the result reads the
\* clock.
StartBatch ==
    /\ pc = "idle"
    /\ \E n \in 0..MaxFiles :
        /\ n_files' = n
        /\ files_left' = n
    /\ \E now \in 0..MaxElapsed :
        result' = [ReviewResult("multi", <<>>, 0) EXCEPT !.timestamp = now]
    /\ pc' = "multi"
    /\ UNCHANGED response
    /\ UNCHANGED client_vars
    /\ UNCHANGED <<request_vars, api_vars, batch_vars, hook_vars>>

\* The issues of the FileReview a review of the batch returns: none, one,
\* two, and the one of an unparsable response.
SampleIssueLists ==
    { <<>>,
      <<Issue("high", "best_practice")>>,
      <<Issue("critical", "best_practice"), Issue("low", "best_practice")>>,
      <<ErrorIssue>> }

\* The path the loop is at.
CurrentPath == n_files - files_left + 1

\* The request of a path issued while another one has not returned.
IssueCall_fan_out ==
    /\ pc = "multi"
    /\ \E path \in CurrentPath..n_files :
        /\ \A k \in 1..Len(calls) : calls[k] # path
        /\ calls' = Append(calls, path)
        /\ outstanding' = outstanding \cup {path}
    /\ requests' = requests + 1
    /\ UNCHANGED <<pc, client, body, wrapper, raw, run, review, review_vars>>
    /\ UNCHANGED <<request_vars, api_vars, hook_vars>>

\* review_file of the current path has read the file and review_code has
\* reached chat.completions.create: the request is out.
IssueCall ==
    /\ pc = "multi"
    /\ files_left > 0
    /\ outstanding = {}
    /\ \A k \in 1..Len(calls) : calls[k] # CurrentPath
    /\ calls' = Append(calls, CurrentPath)
    /\ outstanding' = {CurrentPath}
    /\ requests' = requests + 1
    /\ UNCHANGED <<pc, client, body, wrapper, raw, run, review, review_vars>>
    /\ UNCHANGED <<request_vars, api_vars, hook_vars>>

\* The request returns, review_code returns its FileReview and line 200
\* appends it.
CallReturns ==
    /\ pc = "multi"
    /\ CurrentPath \in outstanding
    /\ \E issues \in SampleIssueLists :
        result' = add_file_review(result, ReviewedFile(CurrentPath, issues))
    /\ files_left' = files_left - 1
    /\ outstanding' = outstanding \ {CurrentPath}
    /\ UNCHANGED <<pc, n_files, response, calls>>
    /\ UNCHANGED client_vars
    /\ UNCHANGED <<request_vars, api_vars, hook_vars>>

\* The request (or the conversion of its result) raises and lines 201-215
\* append the synthetic FileReview.
CallRaises ==
    /\ pc = "multi"
    /\ CurrentPath \in outstanding
    /\ result' = add_file_review(result, FailedFile(CurrentPath))
    /\ files_left' = files_left - 1
    /\ outstanding' = outstanding \ {CurrentPath}
    /\ UNCHANGED <<pc, n_files, response, calls>>
    /\ UNCHANGED client_vars
    /\ UNCHANGED <<request_vars, api_vars, hook_vars>>

\* review_file raises before any request (no such file, not a file) and
\* lines 201-215 append the synthetic FileReview.
FileUnreadable ==
    /\ pc = "multi"
    /\ files_left > 0
    /\ CurrentPath \notin outstanding
    /\ \A k \in 1..Len(calls) : calls[k] # CurrentPath
    /\ result' = add_file_review(result, FailedFile(CurrentPath))
    /\ files_left' = files_left - 1
    /\ UNCHANGED <<pc, n_files, response>>
    /\ UNCHANGED client_vars
    /\ UNCHANGED <<request_vars, api_vars, batch_vars, hook_vars>>

\* add_file_review called on the ReviewResult review_multiple returned.
AddFileReviewCall ==
    /\ pc = "done"
    /\ Len(result.files) <= MaxFiles
    /\ \E issues \in SampleIssueLists :
        result' = add_file_review(result, ReviewedFile(Len(result.files) + 1, issues))
    /\ UNCHANGED <<pc, files_left, n_files, response>>
    /\ UNCHANGED client_vars
    /\ UNCHANGED <<request_vars, api_vars, batch_vars, hook_vars>>

NextBatch ==
    \/ StartBatch
    \/ IssueCall
    \/ CallReturns
    \/ CallRaises
    \/ FileUnreadable
    \/ FinishMultiple
    \/ AddFileReviewCall
    \/ Return

SpecBatch == Init /\ [][NextBatch]_vars

(***************************************************************************)
(* The client: analyze_sync of either module, on the texts the remote     *)
(* model may return.                                                      *)
(***************************************************************************)
Clients == {"llm", "github"}

\* The characters of the enumerated bodies.
BodyChars == {Backtick, "\"", ",", "]", "[", "1", " "}

\* Documents with an object, longer than the enumerated bodies.
SampleBodies ==
    { <<"{", "}">>,
      <<"{", ",", "}">>,
      <<"{", "\"", "a", "\"", ":", "1", "}">>,
      <<"{", "\"", "a", "\"", ":", "1", ",", "}">>,
      <<"{", "\"", "a", "\"", ":", "\"", ",", "}", "\"", "}">>,
      <<"{", "\"", "a", "\"", ":", "[", "1", ",", "]", ",", "}">>,
      <<"[", "1", ",", "]">>,
      <<"\"", ",", "]", "\"">>,
      <<"\"", Backtick, Backtick, Backtick, "\"">> }

Bodies == SeqsUpTo(BodyChars, MaxLen) \cup SampleBodies

Wrappers ==
    {"bare", "fence", "json_fence", "prose_json_fence", "prose_then_json_fence", "prose"}

Fence == <<Backtick, Backtick, Backtick>>

\* The text the remote model returns for the document J.
Wrap(w, J) ==
    CASE w = "bare" -> J
      [] w = "fence" -> Fence \o <<"\n">> \o J \o <<"\n">> \o Fence
      [] w = "json_fence" ->
            Fence \o <<"j", "s", "o", "n", "\n">> \o J \o <<"\n">> \o Fence
      [] w = "prose_json_fence" ->
            <<"a", "\n">> \o Fence \o <<"j", "s", "o", "n", "\n">> \o J
            \o <<"\n">> \o Fence \o <<"\n", "a">>
      [] w = "prose_then_json_fence" ->
            <<"a", "\n">> \o Fence \o <<"j", "s", "o", "n", "\n">> \o J
            \o <<"\n">> \o Fence
      [] w = "prose" -> <<"a", " ">> \o J \o <<" ", "a">>

\* A number of one digit more than int() converts.
LongNumber == [k \in 1..(int_max_str_digits + 1) |-> "1"]

\* A text that is no JSON, one character longer than content[:500] keeps.
LongProse == [k \in 1..501 |-> "a"]

\* The responses: every body in every wrapper, and the long texts bare.
Responses ==
    (Wrappers \X Bodies) \cup {<<"bare", LongNumber>>, <<"bare", LongProse>>}

InitClient ==
    /\ pc = "idle"
    /\ result = None
    /\ files_left = 0
    /\ n_files = 0
    /\ response = None
    /\ client \in Clients
    /\ body = <<>>
    /\ wrapper = "bare"
    /\ raw = <<>>
    /\ run = None
    /\ requests = 0
    /\ review = None
    /\ InitRequest
    /\ InitApiIdle
    /\ InitBatch
    /\ InitHookIdle

\* analyze_sync: one chat.completions.create call returns a text and
\* _parse_response parses it.
analyze_sync ==
    /\ pc = "idle"
    /\ \E r \in Responses :
        /\ wrapper' = r[1]
        /\ body' = r[2]
        /\ raw' = Wrap(r[1], r[2])
        /\ run' = _parse_response(client, Wrap(r[1], r[2]))
    /\ requests' = requests + 1
    /\ pc' = "parsed"
    /\ UNCHANGED <<client, review, review_vars>>
    /\ UNCHANGED <<request_vars, api_vars, batch_vars, hook_vars>>

NextClient ==
    \/ analyze_sync
    \/ Return

SpecClient == InitClient /\ [][NextClient]_vars

(***************************************************************************)
(* review_code: the remote call, the parse of its text, and the           *)
(* FileReview built from the parsed value.                                *)
(***************************************************************************)
\* entries of an issues list the remote model returns
MaxEntries == 2

JStr(text) == [str |-> text]
JNum(n) == [num |-> n]
JList(values) == [arr |-> values]
JDict(d) == [obj |-> d]

\* The JSON text the remote model writes for a value.
RECURSIVE WrittenAs(_), WrittenElements(_), WrittenMembers(_)
WrittenAs(v) ==
    IF IsStr(v) THEN <<"\"">> \o v.str \o <<"\"">>
    ELSE IF IsNum(v) THEN [k \in 1..(CHOOSE d \in 1..9 : Ones(d) = v.num) |-> "1"]
    ELSE IF IsNull(v) THEN <<"n", "u", "l", "l">>
    ELSE IF IsList(v) THEN <<"[">> \o WrittenElements(v.arr) \o <<"]">>
    ELSE <<"{">> \o WrittenMembers(v.obj) \o <<"}">>

WrittenElements(values) ==
    IF values = <<>> THEN <<>>
    ELSE WrittenAs(Head(values))
         \o (IF Len(values) = 1 THEN <<>> ELSE <<",", " ">> \o WrittenElements(Tail(values)))

WrittenMembers(d) ==
    IF DOMAIN d = {} THEN <<>>
    ELSE LET k == CHOOSE x \in DOMAIN d : TRUE
             rest == [x \in (DOMAIN d) \ {k} |-> d[x]]
         IN  <<"\"">> \o k \o <<"\"", ":", " ">> \o WrittenAs(d[k])
             \o (IF DOMAIN rest = {} THEN <<>> ELSE <<",", " ">> \o WrittenMembers(rest))

Text_a == <<"a">>
Text_Critical == <<"C", "r", "i", "t", "i", "c", "a", "l">>
Text_SECURITY == <<"S", "E", "C", "U", "R", "I", "T", "Y">>
Text_ICannotReview == <<"I", " ", "c", "a", "n", "n", "o", "t", " ", "r", "e", "v", "i", "e", "w", " ", "t", "h", "i", "s", ".">>

\* Entries of an issues list that _parse_issue converts.
ConvertibleEntries ==
    { JDict((Key_severity :> JStr(SeverityValue.critical))
            @@ (Key_category :> JStr(IssueCategoryValue.security))),
      JDict((Key_severity :> JStr(Text_Critical))
            @@ (Key_category :> JStr(Text_SECURITY))),
      JDict((Key_severity :> JStr(Text_a)) @@ (Key_category :> JStr(Text_a))),
      JDict(<<>>),
      JDict((Key_severity :> JStr(SeverityValue.info))
            @@ (Key_category :> JStr(IssueCategoryValue.documentation))
            @@ (Key_title :> JStr(Text_a)) @@ (Key_line_start :> JNum(1))
            @@ (Key_suggestion :> JNull)),
      JDict(Key_line_start :> JStr(<<" ", "1">>)) }

\* Entries that are no mapping, or whose fields have the wrong type.
MalformedEntries ==
    { JNum(1),
      JStr(Text_a),
      JDict(Key_severity :> JNum(1)),
      JDict(Key_severity :> JNull),
      JDict((Key_severity :> JStr(SeverityValue.high)) @@ (Key_title :> JNum(1))),
      JDict((Key_severity :> JStr(SeverityValue.low)) @@ (Key_line_start :> JStr(Text_a))),
      JDict((Key_severity :> JStr(Text_a)) @@ (Key_description :> JNull)) }

SampleEntries == ConvertibleEntries \cup MalformedEntries

\* The values the remote model writes: a mapping with an issues list, and
\* values of other shapes.
SampleResults ==
    { JDict(Key_issues :> JList(entries)) : entries \in SeqsUpTo(SampleEntries, MaxEntries) }
    \cup
    { JDict((Key_summary :> JStr(Text_a))
            @@ (Key_issues :> JList(<<JDict(Key_severity :> JStr(SeverityValue.high))>>))),
      JDict(<<>>),
      JDict(Key_summary :> JNum(1)),
      JDict(Key_error :> JStr(Text_a)),
      JDict((Key_error :> JNull) @@ (Key_issues :> JList(<<JDict(<<>>)>>))),
      JDict(Key_issues :> JNull),
      JDict(Key_issues :> JNum(1)),
      JDict(Key_issues :> JStr(Text_a)),
      JDict(Key_issues :> JDict(Text_a :> JNum(1))),
      JDict(Key_issues :> JList(<<JDict(Key_line_end :> JStr(<<"1", " ">>)), JDict(<<>>)>>)),
      JDict(Key_issues :> JList(<<JDict(Key_line_start :> JStr(LongNumber))>>)),
      JList(<<JNum(1)>>),
      JList(<<JStr(Key_error)>>),
      JNum(1),
      JStr(Text_a),
      JStr(Key_error),
      JNull }

\* The texts the remote call returns: the samples written as JSON, one of
\* them with a trailing comma, a text that is no JSON, the long number.
ReviewTexts ==
    { WrittenAs(v) : v \in SampleResults }
    \cup { Text_ICannotReview,
           <<"{", "\"">> \o Key_issues \o <<"\"", ":", " ", "[", "{", "}", ",", "]", ",", "}">>,
           LongNumber }

InitReview ==
    /\ pc = "idle"
    /\ result = None
    /\ files_left = 0
    /\ n_files = 0
    /\ response = None
    /\ client \in Clients
    /\ body = <<>>
    /\ wrapper = "bare"
    /\ raw = <<>>
    /\ run = None
    /\ requests = 0
    /\ review = None
    /\ InitRequest
    /\ InitApiIdle
    /\ InitBatch
    /\ InitHookIdle

\* The filenames a caller passes: none, the empty one, one for each
\* extension of the map, and names that end with none of them.
SampleFilenames ==
    { None, Some(<<>>) }
    \cup { Some(<<"a">> \o EXTENSION_MAP[k][1]) : k \in 1..Len(EXTENSION_MAP) }
    \cup { Some(<<"a", ".", "P", "Y">>), Some(<<"p", "y">>), Some(<<".", "c">>),
           Some(<<"a", ".", "p", "y", ".", "t", "x", "t">>),
           Some(<<"a", ".", "p", "y", "c">>) }

\* The codes a caller passes to the detector.
SampleCodes ==
    { None, Some(<<>>),
      Some(Text_def \o <<"f">>),
      Some(Text_import \o <<"x">>),
      Some(Text_const \o <<"a">>),
      Some(Text_function \o <<"f">>),
      Some(<<"x", " ", "=", " ", "1">>),
      Some(<<"d", "e", "f", "i", "n", "e">>),
      Some(<<"u", "n">> \o Text_def \o <<"x">>),
      Some(Text_const \o <<"a", ";", " ">> \o Text_def \o <<"f">>),
      Some(<<"x", "\n", "y", "\n">>) }

ReviewTypes == {"full", "security", "quick"}

\* The arguments of a review_code invocation; the code is a str.
ReviewRequest(code, filename, language, review_type) ==
    [code |-> code, filename |-> filename, language |-> language,
     review_type |-> review_type]

\* The invocation whose language is given and whose code has one line.
DefaultRequest == ReviewRequest(Some(<<"x">>), None, Some("python"), "full")

SampleRequests ==
    { ReviewRequest(code, filename, language, review_type) :
        code \in { Some(<<"x">>), Some(Text_def \o <<"f">>), Some(<<"x", "\n", "y", "\n">>) },
        filename \in { None, Some(<<"a", ".", "j", "s">>) },
        language \in { None, Some(""), Some("rust") },
        review_type \in ReviewTypes }

\* Texts for the sampled requests: a result with two issues, one with a
\* summary, one that cannot be parsed, one that is no mapping.
RequestTexts ==
    { WrittenAs(JDict(Key_issues :> JList(
          <<JDict((Key_severity :> JStr(SeverityValue.critical))
                  @@ (Key_category :> JStr(IssueCategoryValue.security))),
            JDict(<<>>)>>))),
      WrittenAs(JDict((Key_summary :> JStr(Text_a))
          @@ (Key_issues :> JList(<<JDict(Key_severity :> JStr(SeverityValue.high))>>)))),
      Text_ICannotReview,
      WrittenAs(JNum(1)) }

\* The pairs of an invocation and the text the remote call returns for it.
ReviewInputs ==
    ({DefaultRequest} \X ReviewTexts) \cup (SampleRequests \X RequestTexts)

\* A direct call of detect_language: its answer for the two arguments.
DetectLanguageCall ==
    /\ pc = "idle"
    /\ \E code \in SampleCodes, filename \in SampleFilenames :
        /\ request' = [code |-> code, filename |-> filename]
        /\ detected' = Some(detect_language(code, filename))
    /\ pc' = "detected"
    /\ UNCHANGED <<sent, client_vars, review_vars, api_vars, batch_vars, hook_vars>>

\* What lines 88-101 hand to analyze_sync, and the prompt lines 37 of
\* llm/client.py and 91-96 of github/client.py make of it.
SentFor(r) ==
    [arguments |-> AnalyzeArguments(r.code[1], r.filename, r.language, r.review_type),
     prompt |-> get_review_prompt(r.code[1],
                                  LanguageOf(r.code[1], r.filename, r.language),
                                  FilenameOf(r.filename), r.review_type)]

\* The detector's answer when lines 89-90 ask it.
DetectedFor(r) ==
    IF TruthyTag(r.language) THEN None
    ELSE Some(detect_language(r.code, r.filename))

\* review_code whose remote call raises and is attempted a second time,
\* which raises as well.
CompletionsCreateRaises_retrying ==
    /\ pc = "idle"
    /\ \E r \in SampleRequests \cup {DefaultRequest} :
        /\ request' = r
        /\ sent' = SentFor(r)
        /\ detected' = DetectedFor(r)
    /\ requests' = requests + 2
    /\ review' = Raise("APIError")
    /\ pc' = "failed"
    /\ UNCHANGED <<client, body, wrapper, raw, run, review_vars>>
    /\ UNCHANGED <<api_vars, batch_vars, hook_vars>>

\* review_code whose remote call raises: chat.completions.create is inside
\* no try of analyze_sync or of review_code, so both end with the exception.
CompletionsCreateRaises ==
    /\ pc = "idle"
    /\ \E r \in SampleRequests \cup {DefaultRequest} :
        /\ request' = r
        /\ sent' = SentFor(r)
        /\ detected' = DetectedFor(r)
    /\ requests' = requests + 1
    /\ review' = Raise("APIError")
    /\ pc' = "failed"
    /\ UNCHANGED <<client, body, wrapper, raw, run, review_vars>>
    /\ UNCHANGED <<api_vars, batch_vars, hook_vars>>

\* review_code up to the return of chat.completions.create: the language,
\* the arguments of analyze_sync, one request.
CompletionsCreate ==
    /\ pc = "idle"
    /\ \E input \in ReviewInputs :
        /\ request' = input[1]
        /\ sent' = SentFor(input[1])
        /\ detected' = DetectedFor(input[1])
        /\ body' = input[2]
        /\ raw' = input[2]
    /\ requests' = requests + 1
    /\ pc' = "requested"
    /\ UNCHANGED <<client, wrapper, run, review, review_vars>>
    /\ UNCHANGED <<api_vars, batch_vars, hook_vars>>

\* The parse that asks the remote model again when the text does not parse.
ParseContent_retrying ==
    /\ pc = "requested"
    /\ run' = _parse_response(client, raw)
    /\ pc' = IF IsDict(_parse_response(client, raw).value)
                /\ Key_error \in DOMAIN _parse_response(client, raw).value.obj
             THEN "idle" ELSE "analyzed"
    /\ UNCHANGED <<client, body, wrapper, raw, requests, review, review_vars>>
    /\ UNCHANGED <<request_vars, api_vars, batch_vars, hook_vars>>

\* The last line of analyze_sync: _parse_response on the text.
ParseContent ==
    /\ pc = "requested"
    /\ run' = _parse_response(client, raw)
    /\ pc' = "analyzed"
    /\ UNCHANGED <<client, body, wrapper, raw, requests, review, review_vars>>
    /\ UNCHANGED <<request_vars, api_vars, batch_vars, hook_vars>>

\* review_code from line 103 on.
BuildReview ==
    /\ pc = "analyzed"
    /\ review' = review_code(request.code[1], request.filename, request.language,
                              request.review_type, run.value)
    /\ pc' = "reviewed"
    /\ UNCHANGED <<client, body, wrapper, raw, run, requests, review_vars>>
    /\ UNCHANGED <<request_vars, api_vars, batch_vars, hook_vars>>

NextReview ==
    \/ DetectLanguageCall
    \/ CompletionsCreate
    \/ CompletionsCreateRaises
    \/ ParseContent
    \/ BuildReview
    \/ Return

SpecReview == InitReview /\ [][NextReview]_vars

(***************************************************************************)
(* The REST API process: the settings, the construction of the client and *)
(* of the analyzer, the global handle of api/app.py and the handlers of   *)
(* POST /api/review.                                                      *)
(***************************************************************************)
\* handlers of POST /api/review that are under way together
MaxHandlers == 2

Text_key == <<"g", "s", "k">>

\* The environment's GROQ_API_KEY: absent, empty, or a key.
Environments == { None, Some(<<>>), Some(Text_key) }

\* utils/config.py line 7: os.environ.get('GROQ_API_KEY', '')
groq_api_key(environment) ==
    IF environment = None THEN <<>> ELSE environment[1]

\* Groq(api_key=...) for a str: the SDK's client object, which keeps the
\* key it was given; neither module passes it anything else.
Groq(key) == [api_key |-> key]

\* GroqClient() of the module: llm/client.py hands the settings' key to the
\* SDK; github/client.py raises ValueError when the key is empty.
GroqClient(module, key) ==
    IF module = "github" /\ Len(key) = 0 THEN Raise("ValueError")
    ELSE [module |-> module, client |-> Groq(key)]

\* CodeAnalyzer() with no client injected: get_llm_client()'s GroqClient(),
\* or its exception; instance tells one analyzer from another.
CodeAnalyzer(module, key, instance) ==
    IF IsRaise(GroqClient(module, key)) THEN GroqClient(module, key)
    ELSE [instance |-> instance, llm_client |-> GroqClient(module, key)]

\* A handler slot with no request in it.
NoRequest == [at |-> "none", analyzer |-> None, status |-> 0]

InitApi ==
    /\ pc = "idle"
    /\ result = None
    /\ files_left = 0
    /\ n_files = 0
    /\ response = None
    /\ client \in Clients
    /\ body = <<>>
    /\ wrapper = "bare"
    /\ raw = <<>>
    /\ run = None
    /\ requests = 0
    /\ review = None
    /\ InitRequest
    /\ InitBatch
    /\ InitHookIdle
    /\ api_key \in Environments
    /\ _analyzer = None
    /\ constructions = 0
    /\ handlers = [h \in 1..MaxHandlers |-> NoRequest]
    /\ credentials = {}

api_frame == <<pc, client_vars, review_vars, request_vars, batch_vars, hook_vars>>

\* A request reaches review_code of api/app.py (lines 130-131).
Arrive(h) ==
    /\ handlers[h].at = "none"
    /\ handlers' = [handlers EXCEPT ![h].at = "entered"]
    /\ UNCHANGED <<api_key, _analyzer, constructions, credentials, api_frame>>

\* get_analyzer that constructs an analyzer on every call.
GetAnalyzer_always_constructing(h) ==
    /\ handlers[h].at = "entered"
    /\ constructions <= MaxHandlers
    /\ LET made == CodeAnalyzer(client, groq_api_key(api_key), constructions + 1)
       IN  IF IsRaise(made)
           THEN /\ handlers' = [handlers EXCEPT ![h].at = "done", ![h].status = 503]
                /\ UNCHANGED <<_analyzer, constructions>>
           ELSE /\ _analyzer' = Some(made)
                /\ constructions' = constructions + 1
                /\ handlers' = [handlers EXCEPT ![h].at = "have_analyzer",
                                                ![h].analyzer = Some(made)]
    /\ UNCHANGED <<api_key, credentials, api_frame>>

\* Lines 133-139 with get_analyzer (lines 88-93): the handle, constructed if
\* it is unset; a ValueError of the construction ends the request with 503
\* and assigns nothing.
GetAnalyzer(h) ==
    /\ handlers[h].at = "entered"
    /\ IF _analyzer # None
       THEN /\ handlers' = [handlers EXCEPT ![h].at = "have_analyzer",
                                            ![h].analyzer = _analyzer]
            /\ UNCHANGED <<_analyzer, constructions>>
       ELSE LET made == CodeAnalyzer(client, groq_api_key(api_key), constructions + 1)
            IN  IF IsRaise(made)
                THEN /\ handlers' = [handlers EXCEPT ![h].at = "done", ![h].status = 503]
                     /\ UNCHANGED <<_analyzer, constructions>>
                ELSE /\ _analyzer' = Some(made)
                     /\ constructions' = constructions + 1
                     /\ handlers' = [handlers EXCEPT ![h].at = "have_analyzer",
                                                     ![h].analyzer = Some(made)]
    /\ UNCHANGED <<api_key, credentials, api_frame>>

\* Lines 141-179: analyzer.review_code makes its remote call with the key of
\* the analyzer's client; the handler answers 200 when it returns and 500
\* when it raises.
HandlerReview(h) ==
    /\ handlers[h].at = "have_analyzer"
    /\ credentials' = credentials \cup {handlers[h].analyzer[1].llm_client.client.api_key}
    /\ \E status \in {200, 500} :
        handlers' = [handlers EXCEPT ![h].at = "done", ![h].status = status]
    /\ UNCHANGED <<api_key, _analyzer, constructions, api_frame>>

\* The response is out; the slot takes the next request.
Respond(h) ==
    /\ handlers[h].at = "done"
    /\ handlers' = [handlers EXCEPT ![h] = NoRequest]
    /\ UNCHANGED <<api_key, _analyzer, constructions, credentials, api_frame>>

NextApi ==
    \E h \in 1..MaxHandlers :
        \/ Arrive(h)
        \/ GetAnalyzer(h)
        \/ HandlerReview(h)
        \/ Respond(h)

SpecApi == InitApi /\ [][NextApi]_vars

(***************************************************************************)
(* github/webhook.py: the handler of POST /webhook/github.  A payload is  *)
(* a JSON object, of which the handler reads the action, the pull_request *)
(* and the repository; HMAC-SHA256 is taken to have no collisions, so a   *)
(* digest is the pair it was computed from.  A step of the handler runs   *)
(* from one await of an outbound request to the next.                     *)
(***************************************************************************)
\* entries of the list get_pr_files returns
MaxListed == 6

Text_secret == <<"s">>
Text_other_secret == <<"t">>

\* 'sha256=' + hmac.new(key, payload, hashlib.sha256).hexdigest()
Signature(key, payload) == [text |-> "sha256=", hmac |-> <<key, payload>>]

\* Header values that are no such text: the empty one, one of another
\* scheme, one with a character outside ASCII.
EmptyHeader == [text |-> "", hmac |-> <<>>]
OtherHeader == [text |-> "sha1=", hmac |-> <<>>]
NonAsciiHeader == [text |-> "non-ascii", hmac |-> <<>>]

Key_number == <<"n", "u", "m", "b", "e", "r">>
Key_full_name == <<"f", "u", "l", "l", "_", "n", "a", "m", "e">>

\* What a payload holds under 'pull_request' and 'repository' when GitHub
\* writes it.
PullRequestObject == JDict(Key_number :> JNum(1))
RepositoryObject == JDict(Key_full_name :> JStr(<<"o", "/", "r">>))

\* A payload: what the JSON object holds under 'action', 'pull_request' and
\* 'repository', None where it has no such key.
Payload(action, pull_request, repository) ==
    [action |-> action, pull_request |-> pull_request, repository |-> repository]

\* The payloads: those of GitHub with the action of a pull_request event or
\* none, and objects without the two keys or with another value under them.
Payloads ==
    { Payload(a, Some(PullRequestObject), Some(RepositoryObject)) :
        a \in { None, Some("opened"), Some("synchronize"), Some("reopened"),
                Some("closed") } }
    \cup
    { Payload(Some("opened"), None, None),
      Payload(Some("opened"), Some(JNull), Some(RepositoryObject)),
      Payload(Some("synchronize"), Some(JNum(1)), Some(RepositoryObject)),
      Payload(Some("reopened"), Some(PullRequestObject), Some(JNull)),
      Payload(Some("opened"), None, Some(JStr(<<"o", "/", "r">>))),
      Payload(Some("closed"), Some(JNull), None) }

\* The values of X-Hub-Signature-256 a sender may give to a payload.
SignaturesFor(payload) ==
    { None, Some(EmptyHeader), Some(OtherHeader), Some(NonAsciiHeader),
      Some(Signature(Text_secret, payload)),
      Some(Signature(Text_other_secret, payload)) }
    \cup { Some(Signature(Text_secret, other)) : other \in Payloads \ {payload} }

\* The values of X-GitHub-Event.
Events == { None, Some("pull_request"), Some("push") }

Deliveries ==
    UNION { { [payload |-> payload, signature |-> signature, event |-> event] :
                 signature \in SignaturesFor(payload), event \in Events } :
            payload \in Payloads }

\* The truth value of the Optional[str] header.
TruthyHeader(signature) == signature # None /\ signature[1].text # ""

\* hmac.compare_digest raises TypeError on a str with a character outside
\* ASCII.
CompareRaises(signature) == signature.text = "non-ascii"

\* verify_signature(payload, signature), lines 14-22, where it returns.
verify_signature(payload, signature) ==
    IF Len(secret) = 0 THEN TRUE
    ELSE Signature(secret, payload) = signature

\* Line 71: the request is refused with 401.
Refused(d) ==
    TruthyHeader(d.signature) /\ ~verify_signature(d.payload, d.signature[1])

\* Lines 74-81: the event and the action the handler goes on with.
IsReviewedEvent(d) ==
    /\ d.event = Some("pull_request")
    /\ d.payload.action \in { Some("opened"), Some("synchronize"), Some("reopened") }

\* data.get(key, {}).get(...), lines 83-85, where it returns: the key is
\* absent or holds an object; on another value get raises AttributeError.
GetsFrom(value) == value = None \/ IsDict(value[1])

\* Lines 83-85 return the number of the pull request and the name of the
\* repository.
ReadsPullRequest(payload) ==
    GetsFrom(payload.pull_request) /\ GetsFrom(payload.repository)

\* Entries of the list of a pull request's files.
File_py == [filename |-> <<"a", ".", "p", "y">>, patch |-> <<"+">>]
File_md == [filename |-> <<"a", ".", "m", "d">>, patch |-> <<"+">>]
File_no_patch == [filename |-> <<"a", ".", "g", "o">>, patch |-> <<>>]

\* The lists get_pr_files returns.
FileLists ==
    SeqsUpTo({File_py, File_md}, MaxListed)
    \cup { <<File_no_patch>>, <<File_no_patch, File_py>>, <<File_md, File_no_patch>> }

\* Line 96: the extensions the handler reviews.
ReviewedExtensions ==
    { <<".", "p", "y">>, <<".", "j", "s">>, <<".", "t", "s">>,
      <<".", "j", "a", "v", "a">>, <<".", "g", "o">> }

\* Lines 95-100: the entry is analyzed.
IsAnalyzed(file) ==
    /\ \E ext \in ReviewedExtensions : endswith(file.filename, ext)
    /\ Len(file.patch) > 0

\* The loop over every listed file.
FirstFiles_all(files) == files

\* files[:5]
FirstFiles(files) == SubSeq(files, 1, IF Len(files) < 5 THEN Len(files) ELSE 5)

InitHook ==
    /\ pc = "idle"
    /\ result = None
    /\ files_left = 0
    /\ n_files = 0
    /\ response = None
    /\ client = "llm"
    /\ body = <<>>
    /\ wrapper = "bare"
    /\ raw = <<>>
    /\ run = None
    /\ requests = 0
    /\ review = None
    /\ InitRequest
    /\ InitApiIdle
    /\ InitBatch
    /\ secret \in { <<>>, Text_secret }
    /\ delivery = None
    /\ listed = None
    /\ position = 0
    /\ analyzed = 0
    /\ outbound = <<>>
    /\ hook = "idle"

hook_frame == <<pc, client_vars, review_vars, request_vars, api_vars, batch_vars>>

\* Lines 69-89: a delivery arrives; it is refused, or the comparison raises,
\* or it is ignored, or the reading of the pull request raises, or the
\* handler asks for the files of the pull request.
Deliver ==
    /\ hook = "idle"
    /\ \E d \in Deliveries :
        /\ delivery' = d
        /\ IF TruthyHeader(d.signature) /\ Len(secret) > 0 /\ CompareRaises(d.signature[1])
           THEN hook' = "error" /\ outbound' = outbound
           ELSE IF Refused(d)
           THEN hook' = "refused" /\ outbound' = outbound
           ELSE IF ~IsReviewedEvent(d)
           THEN hook' = "ignored" /\ outbound' = outbound
           ELSE IF ~ReadsPullRequest(d.payload)
           THEN hook' = "error" /\ outbound' = outbound
           ELSE hook' = "listing" /\ outbound' = Append(outbound, "get_pr_files")
    /\ UNCHANGED <<secret, listed, position, analyzed, hook_frame>>

\* get_pr_files returns the list.
FilesListed ==
    /\ hook = "listing"
    /\ \E files \in FileLists : listed' = Some(files)
    /\ hook' = "analyzing"
    /\ UNCHANGED <<secret, delivery, position, analyzed, outbound, hook_frame>>

\* get_pr_files raises, or returns what cannot be sliced.
ListingFails ==
    /\ hook = "listing"
    /\ hook' = "error"
    /\ UNCHANGED <<secret, delivery, listed, position, analyzed, outbound, hook_frame>>

\* Lines 94-100: an entry of files[:5] that is passed over.
SkipFile ==
    /\ hook = "analyzing"
    /\ position < Len(FirstFiles(listed[1]))
    /\ ~IsAnalyzed(FirstFiles(listed[1])[position + 1])
    /\ position' = position + 1
    /\ UNCHANGED <<secret, delivery, listed, analyzed, outbound, hook, hook_frame>>

\* Lines 101-103: analyze_code makes its remote call and returns the review.
AnalyzeFile ==
    /\ hook = "analyzing"
    /\ position < Len(FirstFiles(listed[1]))
    /\ IsAnalyzed(FirstFiles(listed[1])[position + 1])
    /\ outbound' = Append(outbound, "analyze_code")
    /\ analyzed' = analyzed + 1
    /\ position' = position + 1
    /\ UNCHANGED <<secret, delivery, listed, hook, hook_frame>>

\* Line 102: the remote call of analyze_code raises, and so does the handler.
AnalyzeFileRaises ==
    /\ hook = "analyzing"
    /\ position < Len(FirstFiles(listed[1]))
    /\ IsAnalyzed(FirstFiles(listed[1])[position + 1])
    /\ outbound' = Append(outbound, "analyze_code")
    /\ hook' = "error"
    /\ UNCHANGED <<secret, delivery, listed, position, analyzed, hook_frame>>

\* Lines 105-108 with a review collected: the handler sends the one comment
\* and awaits the answer.
PostComment ==
    /\ hook = "analyzing"
    /\ position = Len(FirstFiles(listed[1]))
    /\ analyzed > 0
    /\ outbound' = Append(outbound, "post_comment")
    /\ hook' = "posting"
    /\ UNCHANGED <<secret, delivery, listed, position, analyzed, hook_frame>>

\* Lines 47-50 and 112: the post returns, whatever its status, and the
\* handler answers success.
CommentPosted ==
    /\ hook = "posting"
    /\ hook' = "success"
    /\ UNCHANGED <<secret, delivery, listed, position, analyzed, outbound, hook_frame>>

\* Line 47: the post raises, and so does the handler.
PostingFails ==
    /\ hook = "posting"
    /\ hook' = "error"
    /\ UNCHANGED <<secret, delivery, listed, position, analyzed, outbound, hook_frame>>

\* Lines 109-112: no review was collected; no comment, and the handler
\* answers success.
FinishHook ==
    /\ hook = "analyzing"
    /\ position = Len(FirstFiles(listed[1]))
    /\ analyzed = 0
    /\ hook' = "success"
    /\ UNCHANGED <<secret, delivery, listed, position, analyzed, outbound, hook_frame>>

\* The response is out; the handler takes the next delivery.
HookReturn ==
    /\ hook \in {"refused", "ignored", "success", "error"}
    /\ hook' = "idle"
    /\ delivery' = None
    /\ listed' = None
    /\ position' = 0
    /\ analyzed' = 0
    /\ outbound' = <<>>
    /\ UNCHANGED <<secret, hook_frame>>

NextHook ==
    \/ Deliver
    \/ FilesListed
    \/ ListingFails
    \/ SkipFile
    \/ AnalyzeFile
    \/ AnalyzeFileRaises
    \/ PostComment
    \/ CommentPosted
    \/ PostingFails
    \/ FinishHook
    \/ HookReturn

SpecWebhook == InitHook /\ [][NextHook]_vars

(***************************************************************************)
(* The claims about ReviewResult and the score, checked under Spec.       *)
(***************************************************************************)
RECURSIVE SumOfLengths(_)
SumOfLengths(files) ==
    IF files = <<>> THEN 0
    ELSE Len(Head(files).issues) + SumOfLengths(Tail(files))

\* C1: in every reachable state, total_issues of the ReviewResult equals the
\* sum of len(issues) over its files, whether it was built by add_file_review
\* calls from the empty result or directly by the CLI's single-file path.
C1_TotalIsSumOfLengths ==
    result # None => result.total_issues = SumOfLengths(result.files)

C1_Witness ==
    /\ pc = "multi"
    /\ result # None
    /\ Len(result.files) = 2
    /\ Len(result.files[1].issues) = 0
    /\ Len(result.files[2].issues) = 1
    /\ result.total_issues = 1

\* C2: in every reachable state, the five values of severity_breakdown add up
\* to total_issues.
C2_BreakdownSumsToTotal ==
    result # None =>
        LET breakdown == severity_breakdown(result)
        IN  breakdown["critical"] + breakdown["high"] + breakdown["medium"]
            + breakdown["low"] + breakdown["info"] = result.total_issues

C2_Witness ==
    /\ result # None
    /\ Len(result.files) = 2
    /\ severity_breakdown(result)["info"] >= 1
    /\ severity_breakdown(result)["critical"] >= 1
    /\ result.total_issues >= 2

\* C3: the score is always in 0..100: the aggregate score of every result the
\* program builds, the overall_score it stores, and the REST endpoint's
\* per-file quality_score.
C3_ScoreInRange ==
    /\ result # None =>
        /\ _calculate_score(result) \in 0..100
        /\ result.overall_score # None => result.overall_score[1] \in 0..100
    /\ response # None => response.quality_score \in 0..100

\* A result whose penalty exceeds 100, so that the floor of 0 decides the score.
C3_Witness ==
    /\ pc = "done"
    /\ result # None
    /\ AggregatePenalty(severity_breakdown(result)) > 100
    /\ result.overall_score = Some(0)

\* C4: appending a FileReview never raises the score: the score of the result
\* after add_file_review is at most the score of the result before it.
C4_ScoreNonIncreasing ==
    [][(ReviewNextFile \/ FailNextFile) =>
          _calculate_score(result') <= _calculate_score(result)]_vars

\* A second file with fewer issues than the first has been appended.
C4_Witness ==
    /\ pc = "multi"
    /\ result # None
    /\ Len(result.files) = 2
    /\ Len(result.files[1].issues) = 1
    /\ Len(result.files[2].issues) = 0
    /\ _calculate_score(result) < 100

\* The number of issues of severity s across all the files of a result.
CountAcrossFiles(r, s) ==
    Cardinality(UNION {{<<i, j>> : j \in {k \in 1..Len(r.files[i].issues) :
                                              r.files[i].issues[k].severity = s}} :
                       i \in 1..Len(r.files)})

ExpectedScore(r) ==
    LET penalty == 25 * CountAcrossFiles(r, "critical")
                   + 15 * CountAcrossFiles(r, "high")
                   + 8 * CountAcrossFiles(r, "medium")
                   + 3 * CountAcrossFiles(r, "low")
                   + 1 * CountAcrossFiles(r, "info")
    IN  IF 100 - penalty < 0 THEN 0 ELSE 100 - penalty

\* C5: the stored overall_score is max(0, 100 - (25*critical + 15*high
\* + 8*medium + 3*low + 1*info)) over the issues of all files, and it is 100
\* when there is no issue.
C5_ScoreFormula ==
    (pc = "done" /\ result # None) =>
        /\ result.overall_score = Some(ExpectedScore(result))
        /\ SumOfLengths(result.files) = 0 => result.overall_score = Some(100)

C5_Witness ==
    /\ pc = "done"
    /\ result # None
    /\ Len(result.files) = 2
    /\ CountAcrossFiles(result, "high") >= 1
    /\ CountAcrossFiles(result, "medium") >= 1
    /\ result.overall_score # None
    /\ result.overall_score[1] \in 1..99

\* The ReviewResult that holds the issues of L cut into files after the
\* positions of cuts, built by add_file_review from the empty result.
RECURSIVE BuildFrom(_, _, _, _)
BuildFrom(r, L, cuts, from) ==
    IF from > Len(L) THEN r
    ELSE LET later == {c \in cuts : c >= from}
             to == IF later = {} THEN Len(L)
                   ELSE CHOOSE c \in later : \A d \in later : c <= d
         IN  BuildFrom(add_file_review(r, ReviewedFile(Len(r.files) + 1,
                                                      SubSeq(L, from, to))),
                       L, cuts, to + 1)

\* C6: the per-file score of the REST endpoint on a list of issues equals
\* _calculate_score of every ReviewResult whose files hold exactly these
\* issues, however the list is cut into files.
C6_SameScoreForFileAndAggregate ==
    response # None =>
        \A cuts \in SUBSET (1..(Len(response.issues) - 1)) :
            _calculate_score(BuildFrom(ReviewResult("split", <<>>, 0),
                                       response.issues, cuts, 1))
                = response.quality_score

C6_Witness ==
    /\ pc = "api"
    /\ response # None
    /\ Len(response.issues) >= 3
    /\ \E i \in 1..Len(response.issues) : response.issues[i].severity = "medium"
    /\ response.quality_score \in 1..99

(***************************************************************************)
(* The claims about the response parser, checked under SpecClient.        *)
(***************************************************************************)
IsStrictJson(text) == ~IsError(json_loads(text))

\* The positions of the triple-backtick markers of a text.
Markers(text) == {i \in 1..Len(text) : IsFence(text, i, 3)}

Least(S) == CHOOSE x \in S : \A y \in S : x <= y

\* Where the text enclosed by the first marker starts: after the marker and
\* its json tag.
EnclosedFrom(text) ==
    LET open == Least(Markers(text))
    IN  IF IsTag(text, open + 3) THEN open + 7 ELSE open + 3

\* The text holds a fenced block: a marker, and a later marker that closes it.
HasFencedBlock(text) ==
    /\ Markers(text) # {}
    /\ \E close \in Markers(text) : close >= EnclosedFrom(text)

\* The text between the first marker (and its tag) and the marker that
\* closes it.
FirstFencedBlock(text) ==
    LET from == EnclosedFrom(text)
        close == Least({q \in Markers(text) : q >= from})
    IN  SubSeq(text, from, close - 1)

\* C7: a body that is strictly valid JSON parses to its strict parse whether
\* it comes bare or wrapped in triple-backtick markers, with or without the
\* json tag and surrounding prose.
C7_FenceRoundTrip ==
    (/\ pc = "parsed"
     /\ wrapper \in {"bare", "fence", "json_fence", "prose_json_fence"}
     /\ IsStrictJson(body))
        => run.value = json_loads(body)

\* C8: when the text holds a fenced block, the candidate is the text enclosed
\* by the first block, stripped.
C8_CandidateIsFencedBlock ==
    (pc = "parsed" /\ HasFencedBlock(raw))
        => run.candidate = Strip(FirstFencedBlock(raw))

\* The span from the first opening brace to the last closing brace.
HasBraceSpan(text) ==
    \E i \in 1..Len(text) :
        text[i] = "{" /\ \E j \in (i + 1)..Len(text) : text[j] = "}"

BraceSpan(text) ==
    LET first == Least({i \in 1..Len(text) : text[i] = "{"})
        last == CHOOSE j \in 1..Len(text) :
                    /\ text[j] = "}"
                    /\ \A k \in (j + 1)..Len(text) : text[k] # "}"
    IN  SubSeq(text, first, last)

\* C9: when the text holds no fenced block, the candidate is the span from
\* the first opening brace to the last closing brace, and a valid object in
\* unfenced prose is returned as that object.
C9_BraceSpanFallback ==
    (pc = "parsed" /\ ~HasFencedBlock(raw) /\ HasBraceSpan(raw))
        => /\ run.candidate = Strip(BraceSpan(raw))
           /\ IsStrictJson(BraceSpan(raw)) => run.value = json_loads(BraceSpan(raw))

\* C10: the repairs are applied only after the strict parse of the candidate
\* has failed: a candidate that is strictly valid JSON is handed to json.loads
\* as it is and is returned as its strict parse, no character of a string
\* value altered.
C10_RepairOnlyAfterStrictFailure ==
    (pc = "parsed" /\ IsStrictJson(run.candidate)) =>
        /\ run.loaded = run.candidate
        /\ run.value = json_loads(run.candidate)

\* The text without its character at position i.
Without(text, i) == SubSeq(text, 1, i - 1) \o SubSeq(text, i + 1, Len(text))

\* The positions of a comma that stands immediately before a closing brace
\* or bracket and whose removal leaves a strictly valid JSON mapping.
SingleTrailingCommas(text) ==
    {i \in 1..(Len(text) - 1) :
        /\ text[i] = ","
        /\ text[i + 1] \in {"}", "]"}
        /\ IsStrictJson(Without(text, i))
        /\ IsDict(json_loads(Without(text, i)))}

\* C11: when the text is prose followed by a json-tagged fenced block whose
\* content is a valid JSON mapping but for one trailing comma before a closing
\* brace or bracket, the parser returns the mapping the content denotes
\* without that comma, not an error record.
C11_FenceAndTrailingComma ==
    (/\ pc = "parsed"
     /\ wrapper = "prose_then_json_fence"
     /\ ~IsStrictJson(body)
     /\ SingleTrailingCommas(body) # {})
        => \A i \in SingleTrailingCommas(body) :
               run.value = json_loads(Without(body, i))

\* Neither the strict parse of the candidate nor the parse of the repaired
\* candidate succeeds.
Unparsable(candidate) ==
    /\ IsJSONDecodeError(json_loads(candidate))
    /\ IsJSONDecodeError(json_loads(RepairTrailingCommas(candidate)))

\* C12: when the candidate cannot be parsed even after the repairs, the value
\* returned is a record with an error kind, a raw_response that is the first
\* 500 characters of the unparsed candidate, and the message of the parse
\* error.
C12_ErrorRecordHasThreeFields ==
    (pc = "parsed" /\ Unparsable(run.candidate)) =>
        /\ IsDict(run.value)
        /\ {Key_error, Key_raw_response, Key_parse_error} \subseteq DOMAIN run.value.obj
        /\ IsStr(run.value.obj[Key_error])
        /\ IsStr(run.value.obj[Key_raw_response])
        /\ Len(run.value.obj[Key_raw_response].str) <= 500
        /\ run.value.obj[Key_raw_response].str
               \in {Prefix(run.candidate, 500),
                    Prefix(RepairTrailingCommas(run.candidate), 500)}
        /\ "text_of" \in DOMAIN run.value.obj[Key_parse_error]

\* C13: for every text, _parse_response returns a value, the parsed data or
\* the error record, and never raises.
C13_ParserNeverRaises ==
    pc = "parsed" => ~IsRaise(run.value)

(***************************************************************************)
(* The claims about review_code, checked under SpecReview, and about      *)
(* review_multiple, checked under Spec.                                   *)
(***************************************************************************)
IsFileReview(r) == "issues" \in DOMAIN r

\* The parsed result carries an error marker.
HasErrorMarker(analysis) == IsDict(analysis) /\ Key_error \in DOMAIN analysis.obj

\* C14: when the parsed result carries an error marker, review_code returns a
\* FileReview with exactly one Issue, of severity INFO and category
\* DOCUMENTATION, and the score over that review alone is 99, by the aggregate
\* formula and by the per-file formula.
C14_ErrorMarkerGivesOneInfoIssue ==
    (pc = "reviewed" /\ HasErrorMarker(run.value)) =>
        /\ IsFileReview(review)
        /\ review.issues = <<Issue("info", "documentation")>>
        /\ _calculate_score(ReviewResult("single", <<review>>, Len(review.issues))) = 99
        /\ quality_score(review.issues) = 99

\* The model answered with a text that holds no JSON.
C14_Witness ==
    /\ pc = "reviewed"
    /\ raw = Text_ICannotReview
    /\ HasErrorMarker(run.value)
    /\ IsFileReview(review)
    /\ Len(review.issues) = 1

\* C15: whatever text the remote call returns, review_code returns a
\* FileReview and raises nothing.
C15_ReviewNeverAborts ==
    pc = "reviewed" => IsFileReview(review)

\* The issue objects of the parsed result: the mappings in its issues list.
IssueObjects ==
    IF pc \in {"analyzed", "reviewed"} /\ IsDict(run.value)
       /\ Key_issues \in DOMAIN run.value.obj /\ IsList(run.value.obj[Key_issues])
    THEN {e \in {run.value.obj[Key_issues].arr[i] :
                    i \in 1..Len(run.value.obj[Key_issues].arr)} : IsDict(e)}
    ELSE {}

HasStr(e, key) == key \in DOMAIN e.obj /\ IsStr(e.obj[key])

Values(enum) == {enum[m] : m \in DOMAIN enum}

\* The statement of C16 with the strings compared as they are written, and
\* no condition on the other fields.
C16_AsWritten ==
    \A e \in IssueObjects :
        /\ (HasStr(e, Key_severity) /\ e.obj[Key_severity].str \notin Values(SeverityValue))
              => (~IsRaise(_parse_issue(e)) /\ _parse_issue(e).severity = "medium")
        /\ (HasStr(e, Key_category) /\ e.obj[Key_category].str \notin Values(IssueCategoryValue))
              => (~IsRaise(_parse_issue(e)) /\ _parse_issue(e).category = "best_practice")

\* The fields of the object other than key pass the validation of Issue.
OtherFieldsValidate(e, key) ==
    /\ \A k \in {Key_severity, Key_category} \ {key} : k \in DOMAIN e.obj => IsStr(e.obj[k])
    /\ \A n \in 1..Len(IssueArguments) :
          Validates(IssueArguments[n][2],
                    Get(e, IssueArguments[n][1], IssueArguments[n][3]))

\* C16: for every issue object whose severity string, lower-cased, is outside
\* the five severities, the Issue has severity MEDIUM; for every category
\* string that, lower-cased, is outside the six categories, the Issue has
\* category BEST_PRACTICE; and _parse_issue does not raise for such an object
\* whose other fields pass the validation of Issue.
C16_UnknownStringsDefault ==
    \A e \in IssueObjects :
        /\ (/\ HasStr(e, Key_severity)
            /\ lower(e.obj[Key_severity].str) \notin Values(SeverityValue)
            /\ OtherFieldsValidate(e, Key_severity))
              => (~IsRaise(_parse_issue(e)) /\ _parse_issue(e).severity = "medium")
        /\ (/\ HasStr(e, Key_category)
            /\ lower(e.obj[Key_category].str) \notin Values(IssueCategoryValue)
            /\ OtherFieldsValidate(e, Key_category))
              => (~IsRaise(_parse_issue(e)) /\ _parse_issue(e).category = "best_practice")

\* An object with an unknown severity and an unknown category has been
\* converted, next to one whose strings are known but for their case.
C16_Witness ==
    /\ pc = "reviewed"
    /\ \E e \in IssueObjects :
          /\ HasStr(e, Key_severity) /\ e.obj[Key_severity].str = Text_a
          /\ HasStr(e, Key_category) /\ e.obj[Key_category].str = Text_a
    /\ \E e \in IssueObjects :
          HasStr(e, Key_severity) /\ e.obj[Key_severity].str = Text_Critical
    /\ IsFileReview(review)
    /\ review.issues = <<Issue("medium", "best_practice"), Issue("critical", "security")>>

\* An entry that can be converted to an Issue: a mapping whose severity and
\* category, if present, are strings and whose other fields have the types
\* of the Issue model.
WellFormed(e) ==
    /\ IsDict(e)
    /\ \A k \in {Key_severity, Key_category} : k \in DOMAIN e.obj => IsStr(e.obj[k])
    /\ \A n \in 1..Len(IssueArguments) :
          Validates(IssueArguments[n][2],
                    Get(e, IssueArguments[n][1], IssueArguments[n][3]))

\* C17: for every issues list in a mapping without an error marker,
\* review_code returns a FileReview whose issues are the conversions of the
\* well-formed entries, in their order in the list; the other entries
\* contribute nothing and do not end the review.
C17_MalformedEntriesSkipped ==
    (/\ pc = "reviewed"
     /\ IsDict(run.value)
     /\ ~HasErrorMarker(run.value)
     /\ Key_issues \in DOMAIN run.value.obj
     /\ IsList(run.value.obj[Key_issues])
     /\ Validates("Optional[str]", Get(run.value, Key_summary, None)))
        => /\ IsFileReview(review)
           /\ LET kept == SelectSeq(run.value.obj[Key_issues].arr, WellFormed)
              IN  /\ Len(review.issues) = Len(kept)
                  /\ \A n \in 1..Len(kept) : review.issues[n] = _parse_issue(kept[n])

\* A malformed entry stands before a well-formed one, which is kept.
C17_Witness ==
    /\ pc = "reviewed"
    /\ IsDict(run.value)
    /\ Key_issues \in DOMAIN run.value.obj
    /\ IsList(run.value.obj[Key_issues])
    /\ Len(run.value.obj[Key_issues].arr) = 2
    /\ ~WellFormed(run.value.obj[Key_issues].arr[1])
    /\ WellFormed(run.value.obj[Key_issues].arr[2])
    /\ IsFileReview(review)
    /\ review.issues = <<Issue("critical", "security")>>

\* C18: a batch of n paths gives n entries in the order of the paths, each
\* failed path an entry of exactly one Issue of severity INFO and category
\* DOCUMENTATION, and the paths after a failed one are still processed.
C18_BatchPartialFailure ==
    (result # None /\ result.id = "multi") =>
        /\ Len(result.files) = n_files - files_left
        /\ \A i \in 1..Len(result.files) :
              /\ result.files[i].filename = i
              /\ result.files[i].language = "unknown"
                    => result.files[i].issues = <<Issue("info", "documentation")>>
        /\ pc = "done" => Len(result.files) = n_files

\* The first of two paths failed and the second was reviewed.
C18_Witness ==
    /\ pc = "done"
    /\ result # None
    /\ n_files = 2
    /\ Len(result.files) = 2
    /\ result.files[1] = FailedFile(1)
    /\ result.files[2].language = "python"
    /\ Len(result.files[2].issues) = 1

\* C19: while a path of the batch is unprocessed, overall_score and
\* overall_summary are unset and review_time_ms is 0; once the score is set,
\* every path has its entry and the score is the one of the issues of all
\* the entries.
C19_AggregatesAfterAllFiles ==
    (result # None /\ result.id = "multi") =>
        /\ files_left > 0 =>
              /\ result.overall_score = None
              /\ result.overall_summary = None
              /\ result.review_time_ms = 0
        /\ result.overall_score # None =>
              /\ Len(result.files) = n_files
              /\ result.overall_score = Some(ExpectedScore(result))

\* The first of two paths has been processed and has an issue; the second
\* has not.
C19_Witness ==
    /\ pc = "multi"
    /\ result # None
    /\ n_files = 2
    /\ files_left = 1
    /\ result.total_issues = 1
    /\ result.overall_score = None

\* C20: an invocation of review_code makes one chat-completion request: never
\* more than one, and exactly one once the remote call has returned, whether
\* the text parses, needs the repair or cannot be parsed.
C20_OneRequestPerReview ==
    /\ requests <= 1
    /\ pc \in {"requested", "analyzed", "reviewed"} => requests = 1

\* A review whose text could not be parsed has ended.
C20_Witness ==
    /\ pc = "reviewed"
    /\ HasErrorMarker(run.value)
    /\ IsFileReview(review)
    /\ requests = 1

(***************************************************************************)
(* The claims about the remote call's failure, the detector, the language *)
(* and the review type, checked under SpecReview.                         *)
(***************************************************************************)
\* C22: when the chat-completion request raises, review_code has ended with
\* that exception after one request: no value of analyze_sync, no
\* FileReview, no second request.
C22_RemoteFailurePropagates ==
    pc = "failed" =>
        /\ IsRaise(review)
        /\ review.raises = "APIError"
        /\ run = None
        /\ requests = 1

\* A security review whose remote call raised.
C22_Witness ==
    /\ pc = "failed"
    /\ request.review_type = "security"
    /\ sent.arguments.review_type = "security"
    /\ requests = 1
    /\ IsRaise(review)

ExtensionLanguages == {EXTENSION_MAP[k] : k \in 1..Len(EXTENSION_MAP)}

\* C23: whenever the detector is asked, its answer is the language mapped to
\* an extension the filename ends with, whatever the code; with no such
\* extension, python if the code contains "def " or "import "; otherwise
\* javascript if it contains "const " or "function "; otherwise text.  It
\* answers for every pair of arguments, the absent and the empty included.
C23_DetectorDecisionList ==
    detected # None =>
        LET filename == request.filename
            code == request.code
            named == {e \in ExtensionLanguages :
                          filename # None /\ endswith(filename[1], e[1])}
            has(marker) == code # None /\ IsSubstring(marker, code[1])
        IN  /\ detected[1] \in {e[2] : e \in ExtensionLanguages} \cup {"text"}
            /\ named # {} => \A e \in named : detected[1] = e[2]
            /\ named = {} =>
                  IF has(Text_def) \/ has(Text_import) THEN detected[1] = "python"
                  ELSE IF has(Text_const) \/ has(Text_function)
                  THEN detected[1] = "javascript"
                  ELSE detected[1] = "text"

\* The detector was asked about a .js filename whose code contains "def ".
C23_Witness ==
    /\ pc = "detected"
    /\ request.filename = Some(<<"a", ".", "j", "s">>)
    /\ request.code = Some(Text_def \o <<"f">>)
    /\ detected = Some("javascript")

\* C24: with a non-empty language argument, review_code does not ask the
\* detector, and the language analyze_sync receives and the one of the
\* FileReview are that argument, whatever the filename and the code; with no
\* language argument both are detect_language(code, filename).
C24_DetectorOnlyWithoutLanguage ==
    sent # None =>
        /\ TruthyTag(request.language) =>
              /\ detected = None
              /\ sent.arguments.language = request.language[1]
              /\ sent.prompt.user.language = request.language[1]
              /\ (pc = "reviewed" /\ IsFileReview(review)) =>
                    review.language = request.language[1]
        /\ request.language = None =>
              /\ detected = Some(detect_language(request.code, request.filename))
              /\ sent.arguments.language = detect_language(request.code, request.filename)
              /\ (pc = "reviewed" /\ IsFileReview(review)) =>
                    review.language = detect_language(request.code, request.filename)

\* A review of a .js file with the language rust given.
C24_Witness ==
    /\ pc = "reviewed"
    /\ request.language = Some("rust")
    /\ request.filename = Some(<<"a", ".", "j", "s">>)
    /\ detected = None
    /\ sent.arguments.language = "rust"
    /\ IsFileReview(review)
    /\ review.language = "rust"

\* C29: for the text the remote model returned, review_code gives the same
\* outcome for every review type: the same issues, hence the same score, or
\* the same exception.
C29_ReviewTypeDoesNotChangeIssues ==
    (pc = "reviewed" /\ request # None) =>
        \A t \in ReviewTypes :
            LET other == review_code(request.code[1], request.filename,
                                     request.language, t, run.value)
            IN  IF IsFileReview(review)
                THEN /\ IsFileReview(other)
                     /\ other.issues = review.issues
                     /\ quality_score(other.issues) = quality_score(review.issues)
                ELSE other = review

\* A quick review that returned two issues.
C29_Witness ==
    /\ pc = "reviewed"
    /\ request.review_type = "quick"
    /\ IsFileReview(review)
    /\ Len(review.issues) = 2

(***************************************************************************)
(* The claims about the order of a batch's remote calls and about         *)
(* add_file_review, checked under SpecBatch.                              *)
(***************************************************************************)
\* C26: in a batch at most one remote call is outstanding; the call of a
\* path is outstanding only when every path before it has its entry in the
\* result and it has none yet; the calls are issued in the order of the
\* paths.
C26_BatchIsSequential ==
    (result # None /\ result.id = "multi" /\ pc = "multi") =>
        /\ Cardinality(outstanding) <= 1
        /\ \A path \in outstanding : Len(result.files) = path - 1
        /\ \A k \in 1..Len(calls) : calls[k] <= Len(result.files) + 1
        /\ \A k \in 1..(Len(calls) - 1) : calls[k] < calls[k + 1]

\* The call of the second of two paths is out, after the first path's call
\* returned and its FileReview was appended.
C26_Witness ==
    /\ pc = "multi"
    /\ n_files = 2
    /\ calls = <<1, 2>>
    /\ outstanding = {2}
    /\ Len(result.files) = 1
    /\ result.files[1].language = "python"

\* C30: a step that calls add_file_review keeps the files it had, in their
\* order, ahead of the one new entry, adds the number of the entry's issues
\* to total_issues, and leaves id, timestamp, review_time_ms,
\* overall_summary and overall_score as they were.
C30_AddFileReviewAppendsOnly ==
    [][(CallReturns \/ CallRaises \/ FileUnreadable \/ AddFileReviewCall) =>
          /\ Len(result'.files) = Len(result.files) + 1
          /\ SubSeq(result'.files, 1, Len(result.files)) = result.files
          /\ result'.total_issues
                = result.total_issues + Len(result'.files[Len(result'.files)].issues)
          /\ result'.id = result.id
          /\ result'.timestamp = result.timestamp
          /\ result'.review_time_ms = result.review_time_ms
          /\ result'.overall_summary = result.overall_summary
          /\ result'.overall_score = result.overall_score]_vars

\* A FileReview with an issue was appended to a returned result that had a
\* failed file, a review time and a score.
C30_Witness ==
    /\ pc = "done"
    /\ result # None
    /\ result.timestamp = 1
    /\ result.review_time_ms = 1
    /\ result.overall_score = Some(99)
    /\ Len(result.files) = 2
    /\ result.files[1] = FailedFile(1)
    /\ Len(result.files[2].issues) = 1
    /\ result.total_issues = 2

(***************************************************************************)
(* The claims about the credential and the analyzer handle, checked under *)
(* SpecApi.                                                               *)
(***************************************************************************)
\* C21: with the API key absent or empty, the construction of the client
\* fails: no analyzer holds a client, and no remote call goes out with the
\* empty key.
C21_NoClientWithoutCredential ==
    Len(groq_api_key(api_key)) = 0 =>
        /\ _analyzer = None
        /\ \A h \in 1..MaxHandlers : handlers[h].analyzer = None
        /\ credentials = {}

\* C25: the handle is assigned at most once: once set it is never replaced
\* or changed, every analyzer a handler gets from get_analyzer is the one of
\* the handle, at most one analyzer is ever constructed, and a request whose
\* construction failed leaves the handle unset.
C25_HandleConstructedOnce ==
    [][/\ _analyzer # None => _analyzer' = _analyzer
       /\ constructions' <= 1
       /\ \A h \in 1..MaxHandlers :
             /\ handlers'[h].analyzer # None => handlers'[h].analyzer = _analyzer'
             /\ (handlers[h].at = "entered" /\ handlers'[h].status = 503) =>
                   _analyzer' = None]_vars

\* Two handlers under way together hold the one analyzer of the handle, and
\* one of them has made its remote call.
C25_Witness ==
    /\ _analyzer # None
    /\ constructions = 1
    /\ handlers[1].at = "have_analyzer"
    /\ handlers[2].at = "done"
    /\ handlers[2].status = 200
    /\ handlers[1].analyzer = _analyzer
    /\ handlers[2].analyzer = _analyzer

(***************************************************************************)
(* The claims about the webhook, checked under SpecWebhook.               *)
(***************************************************************************)
\* The outbound calls of one kind made for the delivery.
CallsOf(kind) == Len(SelectSeq(outbound, LAMBDA c : c = kind))

\* C27: with a secret configured, a delivery whose X-Hub-Signature-256 is
\* not 'sha256=' + HMAC-SHA256(secret, payload), the one with no such header
\* included, causes no outbound call: no fetch of the files, no analysis, no
\* comment.
C27_NoCallWithoutValidSignature ==
    (/\ Len(secret) > 0
     /\ delivery # None
     /\ delivery.signature # Some(Signature(secret, delivery.payload))) =>
        outbound = <<>>

\* The entries of files[:5] the handler has gone through and analyzed.
AnalyzedSoFar ==
    Len(SelectSeq(SubSeq(listed[1], 1, position), IsAnalyzed))

\* C28 as stated: a delivery that is no reviewed event causes no outbound
\* call; a handler that has ended for a reviewed event has analyzed entries
\* of the first five only, and has posted one comment if it analyzed at
\* least one file and none otherwise.
C28_AsWritten ==
    /\ (delivery # None /\ ~IsReviewedEvent(delivery)) => outbound = <<>>
    /\ listed # None =>
          /\ position <= 5
          /\ CallsOf("analyze_code") <= 5
          /\ analyzed = AnalyzedSoFar
          /\ hook \in {"success", "error"} =>
                CallsOf("post_comment") = (IF analyzed >= 1 THEN 1 ELSE 0)

\* C28: a delivery that is no reviewed event causes no outbound call; for a
\* reviewed event the handler analyzes entries of the first five only; when
\* every outbound call returns it has posted one comment if it analyzed at
\* least one file and none otherwise; when an analysis raises it posts no
\* comment, whatever it analyzed before.
C28_FilteringAndOneComment ==
    /\ (delivery # None /\ ~IsReviewedEvent(delivery)) => outbound = <<>>
    /\ CallsOf("post_comment") <= 1
    /\ listed # None =>
          /\ position <= 5
          /\ CallsOf("analyze_code") <= 5
          /\ analyzed = AnalyzedSoFar
          /\ hook = "success" =>
                /\ position = Len(listed[1]) \/ position = 5
                /\ CallsOf("analyze_code") = analyzed
                /\ CallsOf("post_comment") = (IF analyzed >= 1 THEN 1 ELSE 0)
          /\ (hook = "error" /\ CallsOf("analyze_code") > analyzed) =>
                CallsOf("post_comment") = 0

\* Six files are listed, all reviewable: five were analyzed and one comment
\* was posted.
C28_Witness ==
    /\ hook = "success"
    /\ listed # None
    /\ Len(listed[1]) = 6
    /\ \A k \in 1..6 : listed[1][k] = File_py
    /\ analyzed = 5
    /\ outbound = <<"get_pr_files", "analyze_code", "analyze_code", "analyze_code",
                    "analyze_code", "analyze_code", "post_comment">>

====
